---- MODULE Spec2Model ----
(***************************************************************************)
(* pytyrant: a pure-python client of the binary Tokyo Tyrant protocol.     *)
(*                                                                         *)
(* Byte strings (python str) are sequences of integers 0..255.  A frame is *)
(* the byte string handed to sock.sendall.  The socket is the pair of the  *)
(* bytes the server has written and the client has not read yet (inbuf)    *)
(* and the frames the client wrote during the current call (sent).         *)
(* Python integers that exceed 32 bits (the '>Q' fields of adddouble) are  *)
(* held as 8 base-256 digits, most significant first.                      *)
(***************************************************************************)
EXTENDS Integers, Sequences, FiniteSets, TLC

VARIABLES
    db,       \* server: key -> stored value ([t |-> "none"|"str"|"int"|"dbl", ...])
    cursor,   \* server: keys still to be handed out by iternext
    inbuf,    \* socket: bytes written by the server, not yet read by the client
    hung,     \* the client is blocked for ever inside sock.recv
    adds,     \* number of addint/adddouble calls made so far
    op,       \* the call made last, with its arguments
    sent,     \* frames written to the socket by the call made last
    recvd,    \* bytes the server wrote in answer to the call made last
    nread,    \* bytes the call made last took from the socket
    ret,      \* what the call made last returned or raised
    queries,  \* the Query objects created so far
    lists,    \* the list objects that hold their conditions, by address
    gens      \* the generators iterkeys() has made, with what each has yielded

vars == <<db, cursor, inbuf, hung, adds, op, sent, recvd, nread, ret, queries, lists,
          gens>>

-----------------------------------------------------------------------------
(* Bounds of the model.                                                    *)

MaxValLen == 2      \* longest value the server is made to hold
MaxAdds == 2        \* addint/adddouble calls in one behaviour
MaxKeys == 2        \* longest key list given to a bulk call
MaxQuarters == 5    \* largest adddouble argument, in quarters (5 is 1.25)
MaxQueries == 2     \* Query objects alive at once
MaxConds == 2       \* longest condition list of a Query
MaxRecv == 3        \* most bytes on their way to one sockrecv
MaxGens == 3        \* generators of iterkeys() alive at once

-----------------------------------------------------------------------------
(* Program constants.                                                      *)

MAGIC == 200
RDBMONOULOG == 1
RDBXOLCKREC == 1
RDBXOLCKGLB == 2
RDBQOSTRASC == 0
RDBQOSTRDESC == 1
RDBQONUMASC == 2
RDBQONUMDESC == 3
RECV_CHUNK == 8192

C_put == 16
C_putkeep == 17
C_putcat == 18
C_putshl == 19
C_putnr == 24
C_out == 32
C_get == 48
C_mget == 49
C_vsiz == 56
C_iterinit == 80
C_iternext == 81
C_fwmkeys == 88
C_addint == 96
C_adddouble == 97
C_ext == 104
C_sync == 112
C_vanish == 113
C_copy == 114
C_restore == 115
C_setmst == 120
C_rnum == 128
C_size == 129
C_stat == 136
C_misc == 144

-----------------------------------------------------------------------------
(* Byte strings.                                                           *)

\* The empty key and 'v'; the empty value, 'v' and 'w'.
KeyList == <<<<>>, <<118>>>>
TableKeyList == <<<<97>>, <<98>>, <<99>>>>
Keys == {KeyList[i] : i \in 1..Len(KeyList)}
Values == {<<>>, <<118>>, <<119>>}
FailCodes == {1, 2}

RECURSIVE Concat(_)
Concat(ss) == IF ss = <<>> THEN <<>> ELSE Head(ss) \o Concat(Tail(ss))

Drop(s, n) == SubSeq(s, n + 1, Len(s))
Take(s, n) == SubSeq(s, 1, n)

\* An optional argument: None, or a value.
NoneArg == [some |-> FALSE]
Some(x) == [some |-> TRUE, v |-> x]

\* str(n) for a python int.
RECURSIVE Digits(_)
Digits(n) == IF n < 10 THEN <<48 + n>> ELSE Digits(n \div 10) \o <<48 + (n % 10)>>
str(n) == IF n < 0 THEN <<45>> \o Digits(0 - n) ELSE Digits(n)

\* sep.join(lst)
RECURSIVE join(_, _)
join(sep, lst) ==
    IF lst = <<>> THEN <<>>
    ELSE IF Len(lst) = 1 THEN lst[1]
    ELSE lst[1] \o sep \o join(sep, Tail(lst))

\* s.split(sep): cut at each occurrence of sep, leftmost first.
RECURSIVE split(_, _)
split(s, sep) ==
    LET hits == {i \in 1..(Len(s) - Len(sep) + 1) : SubSeq(s, i, i + Len(sep) - 1) = sep}
    IN  IF hits = {} THEN <<s>>
        ELSE LET at == CHOOSE i \in hits : \A j \in hits : i <= j
             IN  <<Take(s, at - 1)>> \o split(Drop(s, at + Len(sep) - 1), sep)

\* struct.pack('>I', n) and its inverse, for 0 <= n < 2^31.
PackI(n) ==
    <<(n \div 16777216) % 256, (n \div 65536) % 256, (n \div 256) % 256, n % 256>>
UnpackI(b) == ((b[1] * 256 + b[2]) * 256 + b[3]) * 256 + b[4]

\* A python integer as 8 base-256 digits; struct.pack('>Q', n) sends the digits.
Big(n) == <<0, 0, 0, 0>> \o PackI(n)
BigSmall(b) == UnpackI(SubSeq(b, 5, 8))

RECURSIVE BigAddC(_, _, _, _)
BigAddC(a, b, i, carry) ==
    IF i = 0 THEN <<>>
    ELSE LET s == a[i] + b[i] + carry
         IN  BigAddC(a, b, i - 1, s \div 256) \o <<s % 256>>
BigAdd(a, b) == BigAddC(a, b, 8, 0)

RECURSIVE BigLessFrom(_, _, _)
BigLessFrom(a, b, i) ==
    IF i > 8 THEN FALSE
    ELSE IF a[i] # b[i] THEN a[i] < b[i]
    ELSE BigLessFrom(a, b, i + 1)
BigLess(a, b) == BigLessFrom(a, b, 1)

RECURSIVE BigSubB(_, _, _, _)
BigSubB(a, b, i, borrow) ==
    IF i = 0 THEN <<>>
    ELSE LET d == a[i] - b[i] - borrow
         IN  BigSubB(a, b, i - 1, IF d < 0 THEN 1 ELSE 0) \o <<d % 256>>
BigSub(a, b) == BigSubB(a, b, 8, 0)

RECURSIVE BigTimes(_, _)
BigTimes(n, b) == IF n = 0 THEN Big(0) ELSE BigAdd(b, BigTimes(n - 1, b))

\* 1e12 and 0.25 * 1e12 as python integers.
E12 == <<0, 0, 0, 232, 212, 165, 16, 0>>
QuarterE12 == <<0, 0, 0, 58, 53, 41, 68, 0>>

-----------------------------------------------------------------------------
(* Frame codec: the byte string each builder hands to socksend.            *)

_t0(code) == <<MAGIC, code>>

_t1(code, key) == <<MAGIC, code>> \o PackI(Len(key)) \o key

RECURSIVE LenPrefixed(_)
LenPrefixed(lst) ==
    IF lst = <<>> THEN <<>>
    ELSE PackI(Len(Head(lst))) \o Head(lst) \o LenPrefixed(Tail(lst))

_t1FN(code, func, opts, args) ==
    <<MAGIC, code>> \o PackI(Len(func)) \o PackI(opts) \o PackI(Len(args))
        \o func \o LenPrefixed(args)

_t1R(code, key, msec) == <<MAGIC, code>> \o PackI(Len(key)) \o Big(msec) \o key

_t1M(code, key, count) == <<MAGIC, code>> \o PackI(Len(key)) \o PackI(count) \o key

_tN(code, klst) == <<MAGIC, code>> \o PackI(Len(klst)) \o LenPrefixed(klst)

\* Mutant: the two length fields in the wrong order.
_t2_lengths_swapped(code, key, value) ==
    <<MAGIC, code>> \o PackI(Len(value)) \o PackI(Len(key)) \o key \o value

_t2(code, key, value) ==
    <<MAGIC, code>> \o PackI(Len(key)) \o PackI(Len(value)) \o key \o value

_t2W(code, key, value, width) ==
    <<MAGIC, code>> \o PackI(Len(key)) \o PackI(Len(value)) \o PackI(width)
        \o key \o value

\* Mutant: the key and the value go out as a counted list of two arguments.
_t3F_counted(code, func, opts, key, value) == _t1FN(code, func, opts, <<key, value>>)

_t3F(code, func, opts, key, value) ==
    <<MAGIC, code>> \o PackI(Len(func)) \o PackI(opts) \o PackI(Len(key))
        \o PackI(Len(value)) \o func \o key \o value

\* integ and fract are python integers (8 digits each).
_tDouble(code, key, integ, fract) ==
    <<MAGIC, code>> \o PackI(Len(key)) \o integ \o fract \o key

-----------------------------------------------------------------------------
(* Transport and response decoding.  A reader takes the unread bytes and   *)
(* yields [kind, val, rest, req]: kind is "ok", "TyrantError" (val is the  *)
(* status code) or "blocked" (recv never returns); rest is what is left    *)
(* unread; req counts the bytes asked of the socket.                       *)

Min(a, b) == IF a < b THEN a ELSE b

Blocked(req) == [kind |-> "blocked", val |-> <<>>, rest |-> <<>>, req |-> req]

\* The loop of sockrecv: each recv hands over what is there, at most
\* min(8192, bytes - len(d)) bytes, and blocks when nothing is there.
RECURSIVE sockrecvLoop(_, _, _)
sockrecvLoop(buf, d, bytes) ==
    IF ~(Len(d) < bytes)
    THEN [kind |-> "ok", val |-> d, rest |-> buf, req |-> bytes]
    ELSE LET chunk == Take(buf, Min(Min(RECV_CHUNK, bytes - Len(d)), Len(buf)))
         IN  IF chunk = <<>> THEN Blocked(bytes)
             ELSE sockrecvLoop(Drop(buf, Len(chunk)), d \o chunk, bytes)

sockrecv(buf, bytes) == sockrecvLoop(buf, <<>>, bytes)

\* The loop of sockrecv on a connection whose peer writes buf and then, when
\* closed, closes it: every way it can go.  A recv hands over some of what
\* has come, at least one byte and at most min(8192, bytes - len(d)); with
\* nothing to come it blocks while the connection is open, and returns ''
\* once the peer has closed it, which leaves d, and so the loop, where they
\* were.
RECURSIVE sockrecv_on(_, _, _, _)
sockrecv_on(buf, closed, d, bytes) ==
    IF ~(Len(d) < bytes)
    THEN {[kind |-> "ok", val |-> d, rest |-> buf, req |-> bytes]}
    ELSE LET most == Min(Min(RECV_CHUNK, bytes - Len(d)), Len(buf))
         IN  IF most = 0
             THEN {IF closed
                   THEN [kind |-> "loops", val |-> d, rest |-> buf, req |-> bytes]
                   ELSE Blocked(bytes)}
             ELSE UNION {sockrecv_on(Drop(buf, j), closed, d \o Take(buf, j), bytes) :
                            j \in 1..most}

\* b runs after a and only if a went well.
AndThen(a, b) == IF a.kind # "ok" THEN a ELSE [b EXCEPT !.req = a.req + b.req]

\* Mutant: the status code is lost, every failure is reported as 1.
socksuccess_code_lost(buf) ==
    LET r == sockrecv(buf, 1)
    IN  IF r.kind # "ok" THEN r
        ELSE IF r.val[1] # 0 THEN [r EXCEPT !.kind = "TyrantError", !.val = 1]
        ELSE [r EXCEPT !.val = <<>>]

socksuccess(buf) ==
    LET r == sockrecv(buf, 1)
    IN  IF r.kind # "ok" THEN r
        ELSE IF r.val[1] # 0 THEN [r EXCEPT !.kind = "TyrantError", !.val = r.val[1]]
        ELSE [r EXCEPT !.val = <<>>]

socklen(buf) ==
    LET r == sockrecv(buf, 4)
    IN  IF r.kind # "ok" THEN r ELSE [r EXCEPT !.val = UnpackI(r.val)]

\* The 8 digits; BigSmall gives the number when it fits.
socklong(buf) == sockrecv(buf, 8)

sockstr(buf) ==
    LET n == socklen(buf) IN AndThen(n, sockrecv(n.rest, n.val))

\* A double is held in fixed point: ip whole units and fp units of 1e-12.
FixNorm(ip, fp) ==
    IF BigLess(fp, E12) THEN [ip |-> ip, fp |-> fp]
    ELSE [ip |-> BigAdd(ip, Big(1)), fp |-> BigSub(fp, E12)]

sockdouble(buf) ==
    LET r == sockrecv(buf, 16)
    IN  IF r.kind # "ok" THEN r
        ELSE [r EXCEPT !.val = FixNorm(SubSeq(r.val, 1, 8), SubSeq(r.val, 9, 16))]

sockstrpair(buf) ==
    LET klen == socklen(buf)
        vlen == socklen(klen.rest)
        k == sockrecv(vlen.rest, klen.val)
        v == sockrecv(k.rest, vlen.val)
        all == AndThen(klen, AndThen(vlen, AndThen(k, v)))
    IN  IF all.kind # "ok" THEN all ELSE [all EXCEPT !.val = <<k.val, v.val>>]

\* for i in xrange(n): yield sockstr(sock), gathered by list().
RECURSIVE sockstrs(_, _)
sockstrs(buf, n) ==
    IF n = 0 THEN [kind |-> "ok", val |-> <<>>, rest |-> buf, req |-> 0]
    ELSE LET s == sockstr(buf)
             t == sockstrs(s.rest, n - 1)
             all == AndThen(s, t)
         IN  IF all.kind # "ok" THEN all ELSE [all EXCEPT !.val = <<s.val>> \o t.val]

RECURSIVE sockpairs(_, _)
sockpairs(buf, n) ==
    IF n = 0 THEN [kind |-> "ok", val |-> <<>>, rest |-> buf, req |-> 0]
    ELSE LET s == sockstrpair(buf)
             t == sockpairs(s.rest, n - 1)
             all == AndThen(s, t)
         IN  IF all.kind # "ok" THEN all ELSE [all EXCEPT !.val = <<s.val>> \o t.val]

\* What each Tyrant method does with the response, after socksend.
ReadStatus(buf) == socksuccess(buf)
ReadStr(buf) == LET s == socksuccess(buf) IN AndThen(s, sockstr(s.rest))
ReadLen(buf) == LET s == socksuccess(buf) IN AndThen(s, socklen(s.rest))
ReadLong(buf) == LET s == socksuccess(buf) IN AndThen(s, socklong(s.rest))
ReadDouble(buf) == LET s == socksuccess(buf) IN AndThen(s, sockdouble(s.rest))
ReadStrList(buf) ==
    LET s == socksuccess(buf)
        n == socklen(s.rest)
    IN  AndThen(s, AndThen(n, sockstrs(n.rest, n.val)))
ReadPairList(buf) ==
    LET s == socksuccess(buf)
        n == socklen(s.rest)
    IN  AndThen(s, AndThen(n, sockpairs(n.rest, n.val)))

\* Mutant: a refused misc stops at the status byte.
ReadMisc_count_left(buf) ==
    LET s == socksuccess(buf)
        n == socklen(s.rest)
    IN  AndThen(s, AndThen(n, sockstrs(n.rest, n.val)))

\* Tyrant._misc: the record count is read in a finally clause, whatever the
\* status; the pending TyrantError is raised once the count has been read.
ReadMisc(buf) ==
    LET s == socksuccess(buf)
        n == socklen(s.rest)
    IN  IF s.kind = "blocked" THEN s
        ELSE IF s.kind = "TyrantError"
        THEN IF n.kind # "ok" THEN [n EXCEPT !.req = s.req + n.req]
             ELSE [s EXCEPT !.rest = n.rest, !.req = s.req + n.req]
        ELSE AndThen(s, AndThen(n, sockstrs(n.rest, n.val)))

-----------------------------------------------------------------------------
(* The server at the other end of the socket, as the docstrings of Tyrant  *)
(* describe it: it decodes the frame it is sent, updates its records and   *)
(* writes a status byte and the payload of the opcode.  fault # 0 makes it *)
(* refuse the request with that status.                                    *)

None == [t |-> "none"]
Str(v) == [t |-> "str", v |-> v]
Present(d, k) == d[k].t # "none"
EmptyDb == [k \in Keys |-> None]

\* The bytes of a stored record.
ValBytes(x) ==
    CASE x.t = "str" -> x.v
      [] x.t = "int" -> PackI(x.v)
      [] x.t = "dbl" -> x.ip \o x.fp
      [] OTHER -> <<>>

PresentKeys(d) ==
    SelectSeq(KeyList \o TableKeyList, LAMBDA k : k \in DOMAIN d /\ Present(d, k))

IsPrefix(p, s) == Len(p) <= Len(s) /\ Take(s, Len(p)) = p

\* value[-width:]
LastBytes(v, width) ==
    IF width = 0 \/ width >= Len(v) THEN v ELSE SubSeq(v, Len(v) - width + 1, Len(v))

Field(frame, at) == UnpackI(SubSeq(frame, at, at + 3))

RECURSIVE ParseList(_, _)
ParseList(bytes, n) ==
    IF n = 0 THEN <<>>
    ELSE LET l == UnpackI(Take(bytes, 4))
         IN  <<SubSeq(bytes, 5, 4 + l)>> \o ParseList(Drop(bytes, 4 + l), n - 1)

StrReply(v) == <<0>> \o PackI(Len(v)) \o v
ListReply(lst) == <<0>> \o PackI(Len(lst)) \o LenPrefixed(lst)

\* The records of an mget reply: both lengths, then the key and the value.
RECURSIVE PairsReply(_)
PairsReply(pairs) ==
    IF pairs = <<>> THEN <<>>
    ELSE PackI(Len(Head(pairs)[1])) \o PackI(Len(Head(pairs)[2]))
            \o Head(pairs)[1] \o Head(pairs)[2] \o PairsReply(Tail(pairs))

RECURSIVE PutPairs(_, _)
PutPairs(d, lst) ==
    IF Len(lst) < 2 THEN d
    ELSE PutPairs(IF lst[1] \in DOMAIN d THEN [d EXCEPT ![lst[1]] = Str(lst[2])] ELSE d,
                  Drop(lst, 2))

RECURSIVE OutKeys(_, _)
OutKeys(d, lst) ==
    IF lst = <<>> THEN d
    ELSE OutKeys(IF Head(lst) \in DOMAIN d THEN [d EXCEPT ![Head(lst)] = None] ELSE d,
                 Tail(lst))

RECURSIVE FoundValues(_, _)
FoundValues(d, lst) ==
    IF lst = <<>> THEN <<>>
    ELSE (IF Head(lst) \in DOMAIN d /\ Present(d, Head(lst))
          THEN <<ValBytes(d[Head(lst)])>> ELSE <<>>) \o FoundValues(d, Tail(lst))

RECURSIVE FoundPairs(_, _)
FoundPairs(d, lst) ==
    IF lst = <<>> THEN <<>>
    ELSE (IF Head(lst) \in DOMAIN d /\ Present(d, Head(lst))
          THEN <<<<Head(lst), ValBytes(d[Head(lst)])>>>> ELSE <<>>)
         \o FoundPairs(d, Tail(lst))

RECURSIVE Flatten(_)
Flatten(pairs) ==
    IF pairs = <<>> THEN <<>> ELSE Head(pairs) \o Flatten(Tail(pairs))

Perms(s) ==
    {[i \in 1..Len(s) |-> s[f[i]]] :
        f \in {g \in [1..Len(s) -> 1..Len(s)] :
                  \A i, j \in 1..Len(s) : i # j => g[i] # g[j]}}

\* A table server: the value of a record is its columns, name and value in
\* turn, joined by zero bytes.
S_putlist == <<112, 117, 116, 108, 105, 115, 116>>
S_outlist == <<111, 117, 116, 108, 105, 115, 116>>
S_getlist == <<103, 101, 116, 108, 105, 115, 116>>
S_search == <<115, 101, 97, 114, 99, 104>>
S_putcat == <<112, 117, 116, 99, 97, 116>>
S_addcond == <<97, 100, 100, 99, 111, 110, 100>>
S_setorder == <<115, 101, 116, 111, 114, 100, 101, 114>>
S_setlimit == <<115, 101, 116, 108, 105, 109, 105, 116>>

Columns(x) == IF ValBytes(x) = <<>> THEN <<>> ELSE split(ValBytes(x), <<0>>)

RECURSIVE ColumnOf(_, _)
ColumnOf(cols, name) ==
    IF Len(cols) < 2 THEN NoneArg
    ELSE IF cols[1] = name THEN Some(cols[2])
    ELSE ColumnOf(Drop(cols, 2), name)

\* The number a string starts with, 0 without one.
RECURSIVE AtoiFrom(_, _)
AtoiFrom(s, acc) ==
    IF s = <<>> \/ s[1] \notin 48..57 THEN acc
    ELSE AtoiFrom(Tail(s), acc * 10 + (s[1] - 48))
Atoi(s) == IF s # <<>> /\ s[1] = 45 THEN 0 - AtoiFrom(Tail(s), 0) ELSE AtoiFrom(s, 0)

RECURSIVE StrLess(_, _)
StrLess(a, b) ==
    IF b = <<>> THEN FALSE
    ELSE IF a = <<>> THEN TRUE
    ELSE IF a[1] # b[1] THEN a[1] < b[1]
    ELSE StrLess(Tail(a), Tail(b))

Contains(sub, s) ==
    \E i \in 1..(Len(s) - Len(sub) + 1) : SubSeq(s, i, i + Len(sub) - 1) = sub
IsSuffix(p, s) == Len(p) <= Len(s) /\ Drop(s, Len(s) - Len(p)) = p

\* The operations of QUERY_OPERATIONS on one column; those on token lists
\* and regular expressions (4 to 7, 13, 14) are not evaluated and select
\* nothing.
CondHolds(col, opcode, val) ==
    LET n == Atoi(col)
        m == Atoi(val)
    IN  CASE opcode = <<48>> -> col = val
          [] opcode = <<49>> -> Contains(val, col)
          [] opcode = <<50>> -> IsPrefix(val, col)
          [] opcode = <<51>> -> IsSuffix(val, col)
          [] opcode = <<56>> -> n = m
          [] opcode = <<57>> -> n > m
          [] opcode = <<49, 48>> -> n >= m
          [] opcode = <<49, 49>> -> n < m
          [] opcode = <<49, 50>> -> n <= m
          [] OTHER -> FALSE

\* The record of key k meets every addcond of conds.
Matches(d, k, conds) ==
    \A i \in 1..Len(conds) :
        LET p == split(conds[i], <<0>>)
        IN  (p[1] = S_addcond /\ Len(p) = 4) =>
                LET col == ColumnOf(Columns(d[k]), p[2])
                IN  col.some /\ CondHolds(col.v, p[3], p[4])

\* The tokens of the last condition of conds that starts with cmd.
LastWith(conds, cmd) ==
    LET tokens == [i \in 1..Len(conds) |-> split(conds[i], <<0>>)]
        hits == {i \in 1..Len(conds) : tokens[i][1] = cmd}
    IN  IF hits = {} THEN NoneArg
        ELSE Some(tokens[CHOOSE i \in hits : \A j \in hits : j <= i])

\* Column value x comes before column value y in the order dir.
Before(x, y, dir) ==
    LET str_lt == IF dir = RDBQOSTRASC THEN StrLess(x, y) ELSE StrLess(y, x)
        n == Atoi(x)
        m == Atoi(y)
    IN  CASE dir \in {RDBQOSTRASC, RDBQOSTRDESC} -> str_lt
          [] dir = RDBQONUMASC -> n < m
          [] dir = RDBQONUMDESC -> m < n
          [] OTHER -> FALSE

\* keys in the order dir on field, a record without the column counting as
\* an empty one, and records that compare equal staying in their order.
Sorted(d, keys, field, dir) ==
    LET n == Len(keys)
        col == [i \in 1..n |-> ColumnOf(Columns(d[keys[i]]), field)]
        val == [i \in 1..n |-> IF col[i].some THEN col[i].v ELSE <<>>]
        lt == [i \in 1..n |-> [j \in 1..n |-> Before(val[i], val[j], dir)]]
        rank == [i \in 1..n |->
                    Cardinality({j \in 1..n : lt[j][i] \/ (~lt[i][j] /\ j < i)}) + 1]
    IN  [r \in 1..n |-> keys[CHOOSE i \in 1..n : rank[i] = r]]

\* The first max of s after the first skip of it (a negative max is all).
Window(s, skip, max) ==
    LET rest == [i \in 1..(Len(s) - Min(skip, Len(s))) |-> s[i + Min(skip, Len(s))]]
    IN  [i \in 1..(IF max < 0 THEN Len(rest) ELSE Min(max, Len(rest))) |-> rest[i]]

\* The keys a search gives: the records that meet every addcond, in the
\* order of the last setorder, cut to the window of the last setlimit (a
\* negative limit is no limit).
Search(d, conds) ==
    LET hit == SelectSeq(PresentKeys(d), LAMBDA k : Matches(d, k, conds))
        o == LastWith(conds, S_setorder)
        sort == o.some /\ Len(o.v) = 3
        ordered == IF sort THEN Sorted(d, hit, o.v[2], Atoi(o.v[3])) ELSE hit
        l == LastWith(conds, S_setlimit)
        window == l.some /\ Len(l.v) = 3
        skip == IF window THEN Atoi(l.v[3]) ELSE 0
        max == IF window THEN Atoi(l.v[2]) ELSE 0 - 1
    IN  Window(ordered, IF skip > 0 THEN skip ELSE 0, max)

\* putcat on a table: the columns of args the record does not hold yet are
\* added to it.
RECURSIVE AddColumns(_, _)
AddColumns(cols, new) ==
    IF Len(new) < 2 THEN cols
    ELSE AddColumns(IF ColumnOf(cols, new[1]).some THEN cols
                    ELSE cols \o <<new[1], new[2]>>,
                    Drop(new, 2))

PutCat(d, args) ==
    IF args = <<>> \/ Head(args) \notin DOMAIN d THEN d
    ELSE [d EXCEPT ![Head(args)] = Str(join(<<0>>, AddColumns(Columns(@), Tail(args))))]

Out(d, c, resp) == [db |-> d, cursor |-> c, resp |-> resp, shape |-> "-"]
Shaped(d, c, resp, shape) == [db |-> d, cursor |-> c, resp |-> resp, shape |-> shape]

ServeKeyValue(code, frame, d, c) ==
    LET klen == Field(frame, 3)
        vlen == Field(frame, 7)
        body == IF code = C_putshl THEN 15 ELSE 11
        key == SubSeq(frame, body, body + klen - 1)
        value == SubSeq(frame, body + klen, body + klen + vlen - 1)
        old == IF d[key].t = "str" THEN d[key].v ELSE <<>>
        text == d[key].t \in {"none", "str"}
    IN  CASE key \notin DOMAIN d -> {Out(d, c, IF code = C_putnr THEN <<>> ELSE <<1>>)}
          [] code = C_put -> {Out([d EXCEPT ![key] = Str(value)], c, <<0>>)}
          [] code = C_putnr -> {Out([d EXCEPT ![key] = Str(value)], c, <<>>)}
          [] code = C_putkeep ->
                IF Present(d, key) THEN {Out(d, c, <<1>>)}
                ELSE {Out([d EXCEPT ![key] = Str(value)], c, <<0>>)}
          [] code = C_putcat ->
                IF ~text THEN {Out(d, c, <<1>>)}
                ELSE {Out([d EXCEPT ![key] = Str(old \o value)], c, <<0>>)}
          [] OTHER ->
                IF ~text THEN {Out(d, c, <<1>>)}
                ELSE {Out([d EXCEPT ![key] = Str(LastBytes(old \o value, Field(frame, 11)))],
                          c, <<0>>)}

ServeKey(code, frame, d, c) ==
    LET klen == Field(frame, 3)
        key == SubSeq(frame, 7, 6 + klen)
    IN  CASE code = C_copy -> {Out(d, c, <<0>>)}
          [] key \notin DOMAIN d -> {Out(d, c, <<1>>)}
          [] code = C_out ->
                IF Present(d, key) THEN {Out([d EXCEPT ![key] = None], c, <<0>>)}
                ELSE {Out(d, c, <<1>>)}
          [] code = C_get ->
                IF Present(d, key) THEN {Out(d, c, StrReply(ValBytes(d[key])))}
                ELSE {Out(d, c, <<1>>)}
          [] OTHER ->
                IF Present(d, key) THEN {Out(d, c, <<0>> \o PackI(Len(ValBytes(d[key]))))}
                ELSE {Out(d, c, <<1>>)}

ServeAdd(code, frame, d, c) ==
    LET klen == Field(frame, 3)
        key == SubSeq(frame, IF code = C_addint THEN 11 ELSE 23,
                      (IF code = C_addint THEN 10 ELSE 22) + klen)
        num == Field(frame, 7)
        integ == SubSeq(frame, 7, 14)
        fract == SubSeq(frame, 15, 22)
        sum == IF d[key].t = "int" THEN d[key].v + num ELSE num
        add == FixNorm(integ, fract)
        fix == IF d[key].t = "dbl"
               THEN FixNorm(BigAdd(BigAdd(d[key].ip, add.ip),
                                   IF BigLess(BigAdd(d[key].fp, add.fp), E12)
                                   THEN Big(0) ELSE Big(1)),
                            IF BigLess(BigAdd(d[key].fp, add.fp), E12)
                            THEN BigAdd(d[key].fp, add.fp)
                            ELSE BigSub(BigAdd(d[key].fp, add.fp), E12))
               ELSE add
    IN  IF key \notin DOMAIN d THEN {Out(d, c, <<1>>)}
        ELSE IF code = C_addint
        THEN IF d[key].t \notin {"none", "int"} THEN {Out(d, c, <<1>>)}
             ELSE {Out([d EXCEPT ![key] = [t |-> "int", v |-> sum]], c,
                       <<0>> \o PackI(sum))}
        ELSE IF d[key].t \notin {"none", "dbl"} THEN {Out(d, c, <<1>>)}
             ELSE {Out([d EXCEPT ![key] = [t |-> "dbl", ip |-> fix.ip, fp |-> fix.fp]], c,
                       <<0>> \o fix.ip \o fix.fp)}

ServeMisc(frame, d, c) ==
    LET flen == Field(frame, 3)
        argc == Field(frame, 11)
        func == SubSeq(frame, 15, 14 + flen)
        args == ParseList(Drop(frame, 14 + flen), argc)
    IN  CASE func = <<112, 117, 116, 108, 105, 115, 116>> ->
                {Out(PutPairs(d, args), c, ListReply(<<>>))}
          [] func = <<111, 117, 116, 108, 105, 115, 116>> ->
                {Out(OutKeys(d, args), c, ListReply(<<>>))}
          [] func = <<103, 101, 116, 108, 105, 115, 116>> ->
                {Shaped(d, c, ListReply(FoundValues(d, args)), "legacy")}
                \cup {Shaped(d, c, ListReply(Flatten(p)), "pairs") :
                         p \in Perms(FoundPairs(d, args))}
          [] func = S_search -> {Out(d, c, ListReply(Search(d, args)))}
          [] func = S_putcat -> {Out(PutCat(d, args), c, ListReply(<<>>))}
          [] OTHER -> {Out(d, c, ListReply(<<>>))}

Serve(frame, d, c) ==
    LET code == frame[2]
    IN  CASE code \in {C_put, C_putkeep, C_putcat, C_putshl, C_putnr} ->
                ServeKeyValue(code, frame, d, c)
          [] code \in {C_out, C_get, C_vsiz, C_copy} -> ServeKey(code, frame, d, c)
          [] code \in {C_addint, C_adddouble} -> ServeAdd(code, frame, d, c)
          [] code = C_mget ->
                LET found == FoundPairs(d, ParseList(Drop(frame, 6), Field(frame, 3)))
                IN  {Out(d, c, <<0>> \o PackI(Len(found)) \o PairsReply(found))}
          [] code = C_iterinit -> {Out(d, PresentKeys(d), <<0>>)}
          [] code = C_iternext ->
                IF c = <<>> THEN {Out(d, c, <<1>>)}
                ELSE {Out(d, Tail(c), StrReply(Head(c)))}
          [] code = C_fwmkeys ->
                LET hits == SelectSeq(PresentKeys(d),
                                      LAMBDA k : IsPrefix(SubSeq(frame, 11, 10 + Field(frame, 3)), k))
                IN  {Out(d, c, ListReply(Take(hits, Min(Len(hits), Field(frame, 7)))))}
          [] code = C_ext -> {Out(d, c, StrReply(v)) : v \in {<<>>, <<118>>}}
          [] code = C_vanish -> {Out(EmptyDb, c, <<0>>)}
          [] code = C_rnum -> {Out(d, c, <<0>> \o Big(Len(PresentKeys(d))))}
          [] code = C_size ->
                {Out(d, c, <<0>> \o Big(Len(Concat([i \in 1..Len(PresentKeys(d)) |->
                                                      ValBytes(d[PresentKeys(d)[i]])]))))}
          [] code = C_stat -> {Out(d, c, StrReply(<<>>))}
          [] code = C_misc -> ServeMisc(frame, d, c)
          [] OTHER -> {Out(d, c, <<0>>)}

\* A refused request changes nothing; a refused misc still carries its
\* record count (of 0), as in the protocol, or, from a server that does
\* not, stops at the status byte.
Server(frame, d, c, fault) ==
    IF fault = 0 THEN Serve(frame, d, c)
    ELSE IF frame[2] = C_putnr THEN {Out(d, c, <<>>)}
    ELSE IF frame[2] = C_misc
    THEN {Out(d, c, <<fault>> \o PackI(0)), Out(d, c, <<fault>>)}
    ELSE {Out(d, c, <<fault>>)}

-----------------------------------------------------------------------------
(* One call of the client: the frame goes out, the server answers, the     *)
(* method reads what its decoder asks for.                                 *)

Faults == {0} \cup FailCodes

RECURSIVE SeqsUpTo(_, _)
SeqsUpTo(S, n) ==
    IF n = 0 THEN {<<>>}
    ELSE LET shorter == SeqsUpTo(S, n - 1)
         IN  shorter \cup {Append(l, x) : l \in {m \in shorter : Len(m) = n - 1}, x \in S}

KeyLists == SeqsUpTo(Keys, MaxKeys)

Result(r) == [kind |-> r.kind, val |-> r.val, req |-> r.req]

\* The state after a call that exchanged frame for the reply of outcome o
\* and ended as res, having decoded the reply as r.
Finish(api, name, args, fault, frame, o, r, res) ==
    /\ db' = o.db
    /\ cursor' = o.cursor
    /\ inbuf' = r.rest
    /\ hung' = (r.kind = "blocked")
    /\ op' = [api |-> api, name |-> name, args |-> args, fault |-> fault,
              shape |-> o.shape]
    /\ sent' = <<frame>>
    /\ recvd' = o.resp
    /\ nread' = Len(inbuf) + Len(o.resp) - Len(r.rest)
    /\ ret' = res

\* A method that makes one call of Tyrant: socksend, then the reads of
\* Reader; Map turns what the call gave into what the method gives.
RoundAs(api, name, args, frame, Reader(_), Map(_)) ==
    /\ \E fault \in Faults :
         \E o \in Server(frame, db, cursor, fault) :
            LET r == Reader(inbuf \o o.resp)
            IN  Finish(api, name, args, fault, frame, o, r, Map(r))
    /\ UNCHANGED <<adds, queries, lists, gens>>

Round(name, args, frame, Reader(_)) ==
    RoundAs("Tyrant", name, args, frame, Reader, Result)

\* Mutant: the status byte is waited for.
NoRead_status(buf) == socksuccess(buf)

NoRead(buf) == [kind |-> "ok", val |-> <<>>, rest |-> buf, req |-> 0]

Fits(k, v) == Len(ValBytes(db[k])) + Len(v) <= MaxValLen

put(key, value) ==
    /\ ~hung
    /\ Round("put", [key |-> key, value |-> value], _t2(C_put, key, value), ReadStatus)

putkeep(key, value) ==
    /\ ~hung
    /\ Round("putkeep", [key |-> key, value |-> value], _t2(C_putkeep, key, value),
             ReadStatus)

putcat(key, value) ==
    /\ ~hung
    /\ Fits(key, value)
    /\ Round("putcat", [key |-> key, value |-> value], _t2(C_putcat, key, value),
             ReadStatus)

putshl(key, value, width) ==
    /\ ~hung
    /\ Fits(key, value)
    /\ Round("putshl", [key |-> key, value |-> value, width |-> width],
             _t2W(C_putshl, key, value, width), ReadStatus)

putnr(key, value) ==
    /\ ~hung
    /\ Round("putnr", [key |-> key, value |-> value], _t2(C_putnr, key, value), NoRead)

out(key) ==
    /\ ~hung
    /\ Round("out", [key |-> key], _t1(C_out, key), ReadStatus)

get(key) ==
    /\ ~hung
    /\ Round("get", [key |-> key], _t1(C_get, key), ReadStr)

mget(klst) ==
    /\ ~hung
    /\ Round("mget", [klst |-> klst], _tN(C_mget, klst), ReadPairList)

vsiz(key) ==
    /\ ~hung
    /\ Round("vsiz", [key |-> key], _t1(C_vsiz, key), ReadLen)

iterinit ==
    /\ ~hung
    /\ Round("iterinit", [none |-> 0], _t0(C_iterinit), ReadStatus)

iternext ==
    /\ ~hung
    /\ Round("iternext", [none |-> 0], _t0(C_iternext), ReadStr)

fwmkeys(prefix, maxkeys) ==
    /\ ~hung
    /\ Round("fwmkeys", [prefix |-> prefix, maxkeys |-> maxkeys],
             _t1M(C_fwmkeys, prefix, maxkeys), ReadStrList)

addint(key, num) ==
    /\ ~hung
    /\ adds < MaxAdds
    /\ adds' = adds + 1
    /\ \E fault \in Faults :
         \E o \in Server(_t1M(C_addint, key, num), db, cursor, fault) :
            LET r == ReadLen(inbuf \o o.resp)
            IN  Finish("Tyrant", "addint", [key |-> key, num |-> num], fault,
                       _t1M(C_addint, key, num), o, r, Result(r))
    /\ UNCHANGED <<queries, lists, gens>>

\* math.modf of num quarters, then int(fracpart * 1e12) and int(intpart).
modf(num) == [fracpart |-> num % 4, intpart |-> num \div 4]

adddouble_frame(key, num) ==
    LET fracpart == BigTimes(modf(num).fracpart, QuarterE12)
        intpart == Big(modf(num).intpart)
    IN  _tDouble(C_adddouble, key, fracpart, intpart)

adddouble(key, num) ==
    /\ ~hung
    /\ adds < MaxAdds
    /\ adds' = adds + 1
    /\ \E fault \in Faults :
         \E o \in Server(adddouble_frame(key, num), db, cursor, fault) :
            LET r == ReadDouble(inbuf \o o.resp)
            IN  Finish("Tyrant", "adddouble", [key |-> key, num |-> num], fault,
                       adddouble_frame(key, num), o, r, Result(r))
    /\ UNCHANGED <<queries, lists, gens>>

ext(func, opts, key, value) ==
    /\ ~hung
    /\ Round("ext", [func |-> func, opts |-> opts, key |-> key, value |-> value],
             _t3F(C_ext, func, opts, key, value), ReadStr)

sync ==
    /\ ~hung
    /\ Round("sync", [none |-> 0], _t0(C_sync), ReadStatus)

vanish ==
    /\ ~hung
    /\ Round("vanish", [none |-> 0], _t0(C_vanish), ReadStatus)

copy(path) ==
    /\ ~hung
    /\ Round("copy", [path |-> path], _t1(C_copy, path), ReadStatus)

restore(path, msec) ==
    /\ ~hung
    /\ Round("restore", [path |-> path, msec |-> msec], _t1R(C_copy, path, msec),
             ReadStatus)

setmst(host, port) ==
    /\ ~hung
    /\ Round("setmst", [host |-> host, port |-> port], _t1M(C_setmst, host, port),
             ReadStatus)

rnum ==
    /\ ~hung
    /\ Round("rnum", [none |-> 0], _t0(C_rnum), ReadLong)

size ==
    /\ ~hung
    /\ Round("size", [none |-> 0], _t0(C_size), ReadLong)

stat ==
    /\ ~hung
    /\ Round("stat", [none |-> 0], _t0(C_stat), ReadStr)

misc(func, opts, args) ==
    /\ ~hung
    /\ Round("misc", [func |-> func, opts |-> opts, args |-> args],
             _t1FN(C_misc, func, opts, args), ReadMisc)

-----------------------------------------------------------------------------
(* PyTyrant, the dict-like wrapper of a Tyrant.                            *)

Raise(kind, val, r) == [kind |-> kind, val |-> val, req |-> r.req]

\* except TyrantError: raise KeyError(key)
KeyErrorFor(key, r) ==
    IF r.kind = "TyrantError" THEN Raise("KeyError", key, r) ELSE Result(r)

PyTyrant_setitem(key, value) ==
    /\ ~hung
    /\ RoundAs("PyTyrant", "__setitem__", [key |-> key, value |-> value],
               _t2(C_put, key, value), ReadStatus, Result)

PyTyrant_getitem(key) ==
    /\ ~hung
    /\ RoundAs("PyTyrant", "__getitem__", [key |-> key], _t1(C_get, key), ReadStr,
               LAMBDA r : KeyErrorFor(key, r))

\* Mutant: without a width the value replaces what is stored.
PyTyrant_concat_frame_put(key, value, width) ==
    IF ~width.some THEN _t2(C_put, key, value)
    ELSE _t2W(C_putshl, key, value, width.v)

PyTyrant_concat_frame(key, value, width) ==
    IF ~width.some THEN _t2(C_putcat, key, value)
    ELSE _t2W(C_putshl, key, value, width.v)

PyTyrant_concat(key, value, width) ==
    /\ ~hung
    /\ Fits(key, value)
    /\ RoundAs("PyTyrant", "concat", [key |-> key, value |-> value, width |-> width],
               PyTyrant_concat_frame(key, value, width), ReadStatus, Result)

\* dict((lst[i], lst[i + 1]) for i in xrange(0, len(lst), 2)), then d.get(key):
\* the value of the last pair that holds key, None without one.  An odd list
\* raises IndexError.
RECURSIVE DictGet(_, _)
DictGet(lst, key) ==
    IF Len(lst) < 2 THEN None
    ELSE LET later == DictGet(Drop(lst, 2), key)
         IN  IF later.t # "none" THEN later
             ELSE IF lst[1] = key THEN Str(lst[2]) ELSE None

list_to_dict_fails(lst) == Len(lst) % 2 = 1

opts_of(no_update_log) == IF no_update_log THEN RDBMONOULOG ELSE 0

\* Mutant: a short legacy response is given back as it is.
multi_get_result_partial(keys, rval) ==
    IF Len(rval) <= Len(keys)
    THEN [kind |-> "ok", val |-> [i \in 1..Len(rval) |-> Str(rval[i])]]
    ELSE IF list_to_dict_fails(rval) THEN [kind |-> "IndexError", val |-> <<>>]
    ELSE [kind |-> "ok", val |-> [i \in 1..Len(keys) |-> DictGet(rval, keys[i])]]

\* What multi_get makes of rval, the list misc("getlist") gave for keys.
multi_get_result(keys, rval) ==
    IF Len(rval) <= Len(keys)
    THEN IF Len(rval) < Len(keys)
         THEN [kind |-> "KeyError", val |-> "Missing a result, unusable response in 1.1.10"]
         ELSE [kind |-> "ok", val |-> [i \in 1..Len(rval) |-> Str(rval[i])]]
    ELSE IF list_to_dict_fails(rval) THEN [kind |-> "IndexError", val |-> <<>>]
    ELSE [kind |-> "ok", val |-> [i \in 1..Len(keys) |-> DictGet(rval, keys[i])]]

PyTyrant_multi_get(keys, no_update_log) ==
    /\ ~hung
    /\ RoundAs("PyTyrant", "multi_get", [keys |-> keys, no_update_log |-> no_update_log],
               _t1FN(C_misc, <<103, 101, 116, 108, 105, 115, 116>>, opts_of(no_update_log),
                     keys),
               ReadMisc,
               LAMBDA r : IF r.kind # "ok" THEN Result(r)
                          ELSE [kind |-> multi_get_result(keys, r.val).kind,
                                val |-> multi_get_result(keys, r.val).val,
                                req |-> r.req])

-----------------------------------------------------------------------------
(* Query, the condition list of a table search, and PyTableTyrant.  A      *)
(* Query object is [conditions, _result_cache]: conditions is the address  *)
(* in lists of the python list that holds its conditions, _result_cache is *)
(* None or the list of keys a search gave.                                 *)

QUERY_OPERATIONS ==
    << <<<<115, 116, 114, 101, 113>>, <<48>>>>,                 \* streq   0
       <<<<115, 116, 114, 105, 110, 99>>, <<49>>>>,            \* strinc  1
       <<<<115, 116, 114, 98, 119>>, <<50>>>>,                 \* strbw   2
       <<<<115, 116, 114, 101, 119>>, <<51>>>>,                \* strew   3
       <<<<115, 116, 114, 97, 110, 100>>, <<52>>>>,            \* strand  4
       <<<<115, 116, 114, 111, 114>>, <<53>>>>,                \* stror   5
       <<<<115, 116, 114, 111, 114, 101, 113>>, <<54>>>>,      \* stroreq 6
       <<<<115, 116, 114, 114, 120>>, <<55>>>>,                \* strrx   7
       <<<<110, 117, 109, 101, 113>>, <<56>>>>,                \* numeq   8
       <<<<110, 117, 109, 103, 116>>, <<57>>>>,                \* numgt   9
       <<<<110, 117, 109, 103, 101>>, <<49, 48>>>>,            \* numge   10
       <<<<110, 117, 109, 108, 116>>, <<49, 49>>>>,            \* numlt   11
       <<<<110, 117, 109, 108, 101>>, <<49, 50>>>>,            \* numle   12
       <<<<110, 117, 109, 98, 116>>, <<49, 51>>>>,             \* numbt   13
       <<<<110, 117, 109, 111, 114, 101, 113>>, <<49, 52>>>> >> \* numoreq 14

\* QUERY_OPERATIONS[operation], None standing for KeyError.
opcode_of(operation) ==
    LET hits == {i \in 1..Len(QUERY_OPERATIONS) : QUERY_OPERATIONS[i][1] = operation}
    IN  IF hits = {} THEN NoneArg
        ELSE Some(QUERY_OPERATIONS[CHOOSE i \in hits : TRUE][2])

\* Query.__init__ on the heap h: a new list object, no results.
Query_init(h) ==
    [lists |-> Append(h, <<>>),
     q |-> [conditions |-> Len(h) + 1, _result_cache |-> NoneArg]]

\* Mutant: the clone holds the very list of the Query it is made from.
_clone_list_shared(h, self) ==
    LET n == Query_init(h)
    IN  [lists |-> n.lists, q |-> [n.q EXCEPT !.conditions = self.conditions]]

\* q = klass(self.ptt); q.conditions = self.conditions[:]
_clone(h, self) ==
    LET n == Query_init(h)
    IN  [lists |-> [n.lists EXCEPT ![n.q.conditions] = h[self.conditions]], q |-> n.q]

\* The loop of filter over the keyword arguments, in the order the dict
\* hands them out: the heap it leaves and how it ended.
RECURSIVE filter_loop(_, _, _)
filter_loop(h, q, query) ==
    IF query = <<>> THEN [kind |-> "ok", val |-> <<>>, lists |-> h]
    ELSE LET key == query[1][1]
             value == query[1][2]
             parts == split(key, <<95, 95>>)
         IN  IF Len(parts) # 2
             THEN [kind |-> "ValueError", val |-> "form", lists |-> h]
             ELSE LET opcode == opcode_of(parts[2])
                  IN  IF ~opcode.some
                      THEN [kind |-> "ValueError", val |-> "operation", lists |-> h]
                      ELSE LET v == IF value.t = "list" THEN join(<<44>>, value.v)
                                    ELSE value.v
                               condition == join(<<0>>, <<S_addcond, parts[1], opcode.v, v>>)
                           IN  filter_loop([h EXCEPT ![q.conditions] = Append(@, condition)],
                                           q, Tail(query))

\* The condition of order_by_num and order_by_str.
order_condition(field, asc, desc) ==
    LET descending == IsPrefix(<<45>>, field)
    IN  join(<<0>>, <<S_setorder,
                      IF descending THEN Drop(field, 1) ELSE field,
                      str(IF descending THEN desc ELSE asc)>>)

\* The connection as a call finds it.
Conn == [db |-> db, cursor |-> cursor, inbuf |-> inbuf]

\* No call made on the connection c.
NoCalls(c) ==
    [db |-> c.db, cursor |-> c.cursor, inbuf |-> c.inbuf, sent |-> <<>>, recvd |-> <<>>,
     nread |-> 0, fault |-> 0, shape |-> "-",
     r |-> [kind |-> "ok", val |-> <<>>, req |-> 0]]

\* The status a table server refuses a call with.
TableFaults == {0, 1}

\* Tyrant.misc on the connection c, after the calls of c: every way it can
\* go, with the frames sent, the bytes answered and what was read of them.
MiscCalls(c, func, opts, args) ==
    LET frame == _t1FN(C_misc, func, opts, args)
    IN  UNION {{LET r == ReadMisc(c.inbuf \o o.resp)
                IN  [db |-> o.db, cursor |-> o.cursor, inbuf |-> r.rest,
                     sent |-> Append(c.sent, frame), recvd |-> c.recvd \o o.resp,
                     nread |-> c.nread + Len(c.inbuf) + Len(o.resp) - Len(r.rest),
                     fault |-> f, shape |-> o.shape,
                     r |-> [kind |-> r.kind, val |-> r.val, req |-> c.r.req + r.req]] :
                o \in Server(frame, c.db, c.cursor, f)} : f \in TableFaults}

\* The state after a method of api that made the calls m and ended as res.
Done(api, name, args, m, res) ==
    /\ db' = m.db
    /\ cursor' = m.cursor
    /\ inbuf' = m.inbuf
    /\ hung' = (m.r.kind = "blocked")
    /\ op' = [api |-> api, name |-> name, args |-> args, fault |-> m.fault,
              shape |-> m.shape]
    /\ sent' = m.sent
    /\ recvd' = m.recvd
    /\ nread' = m.nread
    /\ ret' = res
    /\ UNCHANGED <<adds, gens>>

Fail(kind, val) == [kind |-> kind, val |-> val, req |-> 0]

\* PyTableTyrant.search
PyTableTyrant_search ==
    /\ ~hung
    /\ Len(queries) < MaxQueries
    /\ LET n == Query_init(lists)
       IN  /\ queries' = Append(queries, n.q)
           /\ lists' = n.lists
           /\ Done("PyTableTyrant", "search", [none |-> 0], NoCalls(Conn),
                   [kind |-> "ok", val |-> Len(queries) + 1, req |-> 0])

\* A derivation of queries[i] whose clone c came out of the method as r: the
\* clone is the result, or is dropped when the method raised.
Derived(name, args, c, r) ==
    /\ IF r.kind = "ok"
       THEN /\ queries' = Append(queries, c.q)
            /\ lists' = r.lists
       ELSE /\ queries' = queries
            /\ lists' = Take(r.lists, Len(lists))
    /\ Done("Query", name, args, NoCalls(Conn),
            IF r.kind = "ok" THEN [kind |-> "ok", val |-> Len(queries) + 1, req |-> 0]
            ELSE Fail(r.kind, r.val))

Query_filter(i, query) ==
    /\ ~hung
    /\ i \in 1..Len(queries)
    /\ Len(queries) < MaxQueries
    /\ Len(lists[queries[i].conditions]) + Len(query) <= MaxConds
    /\ LET c == _clone(lists, queries[i])
       IN  Derived("filter", [q |-> i, query |-> query], c,
                   filter_loop(c.lists, c.q, query))

Query_order_by_num(i, field) ==
    /\ ~hung
    /\ i \in 1..Len(queries)
    /\ Len(queries) < MaxQueries
    /\ Len(lists[queries[i].conditions]) < MaxConds
    /\ LET c == _clone(lists, queries[i])
           condition == order_condition(field, RDBQONUMASC, RDBQONUMDESC)
       IN  Derived("order_by_num", [q |-> i, field |-> field], c,
                   [kind |-> "ok", val |-> <<>>,
                    lists |-> [c.lists EXCEPT ![c.q.conditions] = Append(@, condition)]])

Query_order_by_str(i, field) ==
    /\ ~hung
    /\ i \in 1..Len(queries)
    /\ Len(queries) < MaxQueries
    /\ Len(lists[queries[i].conditions]) < MaxConds
    /\ LET c == _clone(lists, queries[i])
           condition == order_condition(field, RDBQOSTRASC, RDBQOSTRDESC)
       IN  Derived("order_by_str", [q |-> i, field |-> field], c,
                   [kind |-> "ok", val |-> <<>>,
                    lists |-> [c.lists EXCEPT ![c.q.conditions] = Append(@, condition)]])

\* queries[i].conditions.append(condition), done by the caller of the library.
conditions_append(i, condition) ==
    /\ ~hung
    /\ i \in 1..Len(queries)
    /\ Len(lists[queries[i].conditions]) < MaxConds
    /\ lists' = [lists EXCEPT ![queries[i].conditions] = Append(@, condition)]
    /\ Done("Query", "conditions.append", [q |-> i, condition |-> condition],
            NoCalls(Conn), Fail("ok", <<>>))
    /\ UNCHANGED queries

\* Mutant: the results are handed out and not kept.
_get_results_not_kept(self) ==
    IF self._result_cache.some
    THEN {[m |-> [NoCalls(Conn) EXCEPT !.r.val = self._result_cache.v],
           cache |-> self._result_cache]}
    ELSE {[m |-> m, cache |-> NoneArg] :
             m \in MiscCalls(NoCalls(Conn), S_search, 0, lists[self.conditions])}

\* _get_results: the calls it makes, with what it returns or raises, and
\* the cache it leaves.
_get_results(self) ==
    IF self._result_cache.some
    THEN {[m |-> [NoCalls(Conn) EXCEPT !.r.val = self._result_cache.v],
           cache |-> self._result_cache]}
    ELSE {[m |-> m, cache |-> IF m.r.kind = "ok" THEN Some(m.r.val) ELSE NoneArg] :
             m \in MiscCalls(NoCalls(Conn), S_search, 0, lists[self.conditions])}

\* list(iter(q))
Query_iter(i) ==
    /\ ~hung
    /\ i \in 1..Len(queries)
    /\ \E g \in _get_results(queries[i]) :
          /\ queries' = [queries EXCEPT ![i]._result_cache = g.cache]
          /\ Done("Query", "__iter__", [q |-> i], g.m, g.m.r)
    /\ UNCHANGED lists

Query_len(i) ==
    /\ ~hung
    /\ i \in 1..Len(queries)
    /\ \E g \in _get_results(queries[i]) :
          /\ queries' = [queries EXCEPT ![i]._result_cache = g.cache]
          /\ Done("Query", "__len__", [q |-> i], g.m,
                  IF g.m.r.kind = "ok" THEN [g.m.r EXCEPT !.val = Len(@)] ELSE g.m.r)
    /\ UNCHANGED lists

\* list_to_dict of an even list, as the function from the names to the values.
list_to_dict(lst) ==
    [k \in {lst[i] : i \in {j \in 1..Len(lst) : j % 2 = 1}} |-> DictGet(lst, k).v]

\* list_to_dict(d.get(key).split('\x00')) for one key, d being the dict of
\* the interleaved response rval.
table_row(rval, key) ==
    LET v == DictGet(rval, key)
    IN  IF v.t = "none" THEN [kind |-> "AttributeError", val |-> "NoneType.split"]
        ELSE IF list_to_dict_fails(split(v.v, <<0>>))
        THEN [kind |-> "IndexError", val |-> <<>>]
        ELSE [kind |-> "ok", val |-> list_to_dict(split(v.v, <<0>>))]

\* What PyTableTyrant.multi_get makes of rval, the list misc("getlist")
\* gave for keys; rval.split fails on a list.
PyTableTyrant_multi_get_result(keys, rval) ==
    IF Len(rval) <= Len(keys)
    THEN IF Len(rval) < Len(keys)
         THEN [kind |-> "KeyError", val |-> "Missing a result, unusable response in 1.1.10"]
         ELSE [kind |-> "AttributeError", val |-> "list.split"]
    ELSE IF list_to_dict_fails(rval) THEN [kind |-> "IndexError", val |-> <<>>]
    ELSE LET rows == [i \in 1..Len(keys) |-> table_row(rval, keys[i])]
             bad == {i \in 1..Len(keys) : rows[i].kind # "ok"}
         IN  IF bad = {} THEN [kind |-> "ok", val |-> [i \in 1..Len(keys) |-> rows[i].val]]
             ELSE rows[CHOOSE i \in bad : \A j \in bad : i <= j]

\* PyTableTyrant.multi_get after the calls of c.
PyTableTyrant_multi_get(c, keys, no_update_log) ==
    {IF m.r.kind # "ok" THEN m
     ELSE [m EXCEPT !.r.kind = PyTableTyrant_multi_get_result(keys, m.r.val).kind,
                    !.r.val = PyTableTyrant_multi_get_result(keys, m.r.val).val] :
        m \in MiscCalls(c, S_getlist, opts_of(no_update_log), keys)}

\* PyTableTyrant.multi_get, called by itself.
PyTableTyrant_multi_get_of(keys, no_update_log) ==
    /\ ~hung
    /\ \E m \in PyTableTyrant_multi_get(NoCalls(Conn), keys, no_update_log) :
          Done("PyTableTyrant", "multi_get",
               [keys |-> keys, no_update_log |-> no_update_log], m, m.r)
    /\ UNCHANGED <<queries, lists>>

\* items: list(self) asks for the results once, multi_get fetches the rows.
Query_items(i) ==
    /\ ~hung
    /\ i \in 1..Len(queries)
    /\ \E g \in _get_results(queries[i]) :
          /\ queries' = [queries EXCEPT ![i]._result_cache = g.cache]
          /\ IF g.m.r.kind # "ok" THEN Done("Query", "items", [q |-> i], g.m, g.m.r)
             ELSE \E m \in PyTableTyrant_multi_get(g.m, g.m.r.val, FALSE) :
                     Done("Query", "items", [q |-> i], m, m.r)
    /\ UNCHANGED lists

\* The keys a Query is indexed with.
int(v) == [t |-> "int", v |-> v]
slice(start, stop, step) == [t |-> "slice", start |-> start, stop |-> stop, step |-> step]

\* isinstance(k, (slice, int, long))
IsIndex(k) == k.t \in {"int", "slice"}

\* Mutant: negative keys are let through.
NonNegative_unchecked(k) == TRUE

\* The assertion of __getitem__.
NonNegative(k) ==
    \/ k.t = "int" /\ k.v >= 0
    \/ /\ k.t = "slice"
       /\ ~k.start.some \/ k.start.v >= 0
       /\ ~k.stop.some \/ k.stop.v >= 0

\* The positions lst[k] takes of a list of n items, counted from 0, for a
\* slice k whose step is not 0.
RECURSIVE Walk(_, _, _)
Walk(i, stop, step) ==
    IF (step > 0 /\ i < stop) \/ (step < 0 /\ i > stop)
    THEN <<i>> \o Walk(i + step, stop, step)
    ELSE <<>>

SliceIndices(n, k) ==
    LET step == IF k.step.some THEN k.step.v ELSE 1
        lower == IF step < 0 THEN 0 - 1 ELSE 0
        upper == IF step < 0 THEN n - 1 ELSE n
        Clamp(x) == IF x < 0 THEN (IF x + n < lower THEN lower ELSE x + n)
                    ELSE (IF x > upper THEN upper ELSE x)
        start == IF k.start.some THEN Clamp(k.start.v)
                 ELSE IF step < 0 THEN upper ELSE lower
        stop == IF k.stop.some THEN Clamp(k.stop.v)
                ELSE IF step < 0 THEN lower ELSE upper
    IN  Walk(start, stop, step)

PySlice(lst, k) ==
    LET at == SliceIndices(Len(lst), k)
    IN  [j \in 1..Len(at) |-> lst[at[j] + 1]]

\* Mutant: the limit is the stop of the slice.
slice_condition_limit_is_stop(k) ==
    LET start == IF k.start.some THEN k.start.v ELSE 0
        limit == IF k.stop.some THEN k.stop.v ELSE 0 - 1
    IN  join(<<0>>, <<S_setlimit, str(limit), str(start)>>)

\* '\x00'.join(('setlimit', str(limit), str(k.start or 0)))
slice_condition(k) ==
    LET start == IF k.start.some THEN k.start.v ELSE 0
        limit == IF k.stop.some THEN k.stop.v - start ELSE 0 - 1
    IN  join(<<0>>, <<S_setlimit, str(limit), str(start)>>)

\* Mutant: the index is sent as the limit, and 1 as the offset.
index_condition_offset_is_one(k) == join(<<0>>, <<S_setlimit, str(k.v), str(1)>>)

\* '\x00'.join(('setlimit', str(1), str(k)))
index_condition(k) == join(<<0>>, <<S_setlimit, str(1), str(k.v)>>)

\* k.step and list(resp)[::k.step] or resp
slice_step(k, resp) ==
    IF ~k.step.some \/ k.step.v = 0 THEN resp
    ELSE LET stepped == PySlice(resp, slice(NoneArg, NoneArg, k.step))
         IN  IF stepped = <<>> THEN resp ELSE stepped

\* __getitem__: the calls it makes and what it returns or raises.  A key is
\* given back as Str(key), None as None.
Query_getitem_outcomes(self, k) ==
    IF ~IsIndex(k) THEN {[m |-> NoCalls(Conn), res |-> Fail("TypeError", <<>>)]}
    ELSE IF ~NonNegative(k)
    THEN {[m |-> NoCalls(Conn),
           res |-> Fail("AssertionError", "Negative indexing is not supported.")]}
    ELSE IF self._result_cache.some /\ self._result_cache.v # <<>>
    THEN LET cache == self._result_cache.v
         IN  {[m |-> NoCalls(Conn),
               res |-> IF k.t = "int"
                       THEN Fail("ok", IF 0 <= k.v /\ k.v < Len(cache)
                                       THEN Str(cache[k.v + 1])
                                       ELSE IF k.v < 0 /\ 0 - k.v <= Len(cache)
                                       THEN Str(cache[Len(cache) + k.v + 1])
                                       ELSE None)
                       ELSE IF k.step.some /\ k.step.v = 0
                       THEN Fail("ValueError", "slice step cannot be zero")
                       ELSE Fail("ok", PySlice(cache, k))]}
    ELSE IF k.t = "slice"
    THEN {[m |-> m,
           res |-> IF m.r.kind = "ok" THEN [m.r EXCEPT !.val = slice_step(k, @)] ELSE m.r] :
             m \in MiscCalls(NoCalls(Conn), S_search, 0,
                             lists[self.conditions] \o <<slice_condition(k)>>)}
    ELSE {[m |-> m,
           res |-> IF m.r.kind # "ok" THEN m.r
                   ELSE [m.r EXCEPT !.val = IF @ = <<>> THEN None ELSE Str(@[1])]] :
             m \in MiscCalls(NoCalls(Conn), S_search, 0,
                             lists[self.conditions] \o <<index_condition(k)>>)}

Query_getitem(i, k) ==
    /\ ~hung
    /\ i \in 1..Len(queries)
    /\ \E g \in Query_getitem_outcomes(queries[i], k) :
          Done("Query", "__getitem__", [q |-> i, k |-> k], g.m, g.res)
    /\ UNCHANGED <<queries, lists>>

\* dict_to_list of a dict that hands out its items in the order of dct.
dict_to_list(dct) == Flatten(dct)

\* PyTableTyrant.concat
PyTableTyrant_concat(key, value, width, no_update_log) ==
    /\ ~hung
    /\ IF ~width.some
       THEN \E m \in MiscCalls(NoCalls(Conn), S_putcat, opts_of(no_update_log),
                               <<key>> \o dict_to_list(value)) :
               Done("PyTableTyrant", "concat",
                    [key |-> key, value |-> value, width |-> width], m, m.r)
       ELSE Done("PyTableTyrant", "concat",
                 [key |-> key, value |-> value, width |-> width], NoCalls(Conn),
                 Fail("ValueError", "Cannot concat with a width on a table database"))
    /\ UNCHANGED <<queries, lists>>

-----------------------------------------------------------------------------
(* Methods of PyTyrant that make several calls of Tyrant.                  *)

\* A call of Tyrant on the connection c, after the calls of c: frame goes
\* out, the server answers, Reader reads.  Every way it can go; fault is the
\* first status a call of the method was refused with.
Call(c, frame, Reader(_)) ==
    UNION {{LET r == Reader(c.inbuf \o o.resp)
            IN  [db |-> o.db, cursor |-> o.cursor, inbuf |-> r.rest,
                 sent |-> Append(c.sent, frame), recvd |-> c.recvd \o o.resp,
                 nread |-> c.nread + Len(c.inbuf) + Len(o.resp) - Len(r.rest),
                 fault |-> IF c.fault # 0 THEN c.fault ELSE f, shape |-> o.shape,
                 r |-> [kind |-> r.kind, val |-> r.val, req |-> c.r.req + r.req]] :
            o \in Server(frame, c.db, c.cursor, f)} : f \in Faults}

\* What a method gives back after the calls of m.
Returns(m, val) == [kind |-> "ok", val |-> val, req |-> m.r.req]

\* Mutant: the TyrantError of iternext reaches the caller.
RECURSIVE iterkeys_loop_raises(_, _)
iterkeys_loop_raises(c, yielded) ==
    UNION {IF m.r.kind = "ok" THEN iterkeys_loop_raises(m, Append(yielded, m.r.val))
           ELSE {[m |-> m, res |-> m.r]} :
              m \in Call(c, _t0(C_iternext), ReadStr)}

\* while True: yield self.t.iternext(), until TyrantError, which is passed
\* over: yielded is what list() has gathered so far.
RECURSIVE iterkeys_loop(_, _)
iterkeys_loop(c, yielded) ==
    UNION {IF m.r.kind = "ok" THEN iterkeys_loop(m, Append(yielded, m.r.val))
           ELSE IF m.r.kind = "TyrantError" THEN {[m |-> m, res |-> Returns(m, yielded)]}
           ELSE {[m |-> m, res |-> m.r]} :
              m \in Call(c, _t0(C_iternext), ReadStr)}

\* iterkeys, run to its end by list(): every way it can go.
iterkeys(c) ==
    UNION {IF i.r.kind # "ok" THEN {[m |-> i, res |-> i.r]}
           ELSE iterkeys_loop(i, <<>>) :
              i \in Call(c, _t0(C_iterinit), ReadStatus)}

\* A method of PyTyrant that goes one of the ways of outcomes, each the
\* calls made and what the method gives or raises.
Wrapped(name, args, outcomes) ==
    /\ ~hung
    /\ \E g \in outcomes : Done("PyTyrant", name, args, g.m, g.res)
    /\ UNCHANGED <<queries, lists>>

\* A method that makes one call of Tyrant and gives what the call gives.
Passed(frame, Reader(_)) ==
    {[m |-> m, res |-> m.r] : m \in Call(NoCalls(Conn), frame, Reader)}

\* A method that makes one call of Tyrant and raises KeyError(key) for its
\* TyrantError.
Keyed(key, frame, Reader(_)) ==
    {[m |-> m, res |-> KeyErrorFor(key, m.r)] : m \in Call(NoCalls(Conn), frame, Reader)}

PyTyrant_delitem(key) ==
    Wrapped("__delitem__", [key |-> key], Keyed(key, _t1(C_out, key), ReadStatus))

PyTyrant_get_size(key) ==
    Wrapped("get_size", [key |-> key], Keyed(key, _t1(C_vsiz, key), ReadLen))

\* Mutant: the TyrantError of vsiz reaches the caller.
contains_result_raised(m) == IF m.r.kind = "ok" THEN Returns(m, TRUE) ELSE m.r

\* try: self.t.vsiz(key) / except TyrantError: return False / else: return True
contains_result(m) ==
    IF m.r.kind = "TyrantError" THEN Returns(m, FALSE)
    ELSE IF m.r.kind = "ok" THEN Returns(m, TRUE)
    ELSE m.r

PyTyrant_contains(key) ==
    Wrapped("__contains__", [key |-> key],
            {[m |-> m, res |-> contains_result(m)] :
                m \in Call(NoCalls(Conn), _t1(C_vsiz, key), ReadLen)})

PyTyrant_len ==
    Wrapped("__len__", [none |-> 0], Passed(_t0(C_rnum), ReadLong))

PyTyrant_clear ==
    Wrapped("clear", [none |-> 0], Passed(_t0(C_vanish), ReadStatus))

PyTyrant_sync ==
    Wrapped("sync", [none |-> 0], Passed(_t0(C_sync), ReadStatus))

\* items is a list of pairs.
PyTyrant_multi_set(items, no_update_log) ==
    Wrapped("multi_set", [items |-> items, no_update_log |-> no_update_log],
            {[m |-> m, res |-> IF m.r.kind = "ok" THEN Returns(m, <<>>) ELSE m.r] :
                m \in Call(NoCalls(Conn),
                           _t1FN(C_misc, S_putlist, opts_of(no_update_log), Flatten(items)),
                           ReadMisc)})

PyTyrant_multi_del(keys, no_update_log) ==
    Wrapped("multi_del", [keys |-> keys, no_update_log |-> no_update_log],
            {[m |-> m, res |-> IF m.r.kind = "ok" THEN Returns(m, <<>>) ELSE m.r] :
                m \in Call(NoCalls(Conn),
                           _t1FN(C_misc, S_outlist, opts_of(no_update_log), keys),
                           ReadMisc)})

PyTyrant_call_func(func, key, value, record_locking, global_locking) ==
    Wrapped("call_func",
            [func |-> func, key |-> key, value |-> value,
             record_locking |-> record_locking, global_locking |-> global_locking],
            Passed(_t3F(C_ext, func,
                        (IF record_locking THEN RDBXOLCKREC ELSE 0)
                            + (IF global_locking THEN RDBXOLCKGLB ELSE 0),
                        key, value),
                   ReadStr))

\* prefix_keys: without maxkeys, len(self) is asked for first.
prefix_keys(prefix, maxkeys) ==
    IF maxkeys.some
    THEN Passed(_t1M(C_fwmkeys, prefix, maxkeys.v), ReadStrList)
    ELSE UNION {IF l.r.kind # "ok" THEN {[m |-> l, res |-> l.r]}
                ELSE {[m |-> f, res |-> f.r] :
                         f \in Call(l, _t1M(C_fwmkeys, prefix, BigSmall(l.r.val)),
                                    ReadStrList)} :
                   l \in Call(NoCalls(Conn), _t0(C_rnum), ReadLong)}

PyTyrant_prefix_keys(prefix, maxkeys) ==
    Wrapped("prefix_keys", [prefix |-> prefix, maxkeys |-> maxkeys],
            prefix_keys(prefix, maxkeys))

\* Mutant: the value is stored whether the key is there or not.
setdefault_frame_put(key, value) == _t2(C_put, key, value)

\* self.t.putkeep(key, value)
setdefault_frame(key, value) == _t2(C_putkeep, key, value)

\* The connection c after another client has removed key.
OutByOther(c, key) == [c EXCEPT !.db = [@ EXCEPT ![key] = None]]

\* setdefault: putkeep, and self[key] when it raises TyrantError; another
\* client may remove the key in between.  shape tells whether one did.
setdefault(key, value) ==
    UNION {IF p.r.kind = "ok" THEN {[m |-> p, res |-> Returns(p, value)]}
           ELSE IF p.r.kind # "TyrantError" THEN {[m |-> p, res |-> p.r]}
           ELSE {[m |-> g, res |-> KeyErrorFor(key, g.r)] :
                    g \in Call(p, _t1(C_get, key), ReadStr)}
                \cup {[m |-> [g EXCEPT !.shape = "out by another client"],
                       res |-> KeyErrorFor(key, g.r)] :
                         g \in Call(OutByOther(p, key), _t1(C_get, key), ReadStr)} :
              p \in Call(NoCalls(Conn), setdefault_frame(key, value), ReadStatus)}

PyTyrant_setdefault(key, value) ==
    Wrapped("setdefault", [key |-> key, value |-> value], setdefault(key, value))

\* PyTyrant.keys
PyTyrant_keys ==
    /\ ~hung
    /\ \E g \in iterkeys(NoCalls(Conn)) :
          Done("PyTyrant", "keys", [none |-> 0], g.m, g.res)
    /\ UNCHANGED <<queries, lists>>

\* A call of Tyrant that the server refuses for no reason but its own.
Answered(c, frame, Reader(_)) == {m \in Call(c, frame, Reader) : m.fault = 0}

\* One turn of the loop of iterkeys on the connection c: a key is yielded,
\* or TyrantError ends the generator.
generator_turn(c) ==
    {[m |-> m,
      at |-> IF m.r.kind = "ok" THEN "run" ELSE "done",
      res |-> IF m.r.kind = "ok" THEN m.r
              ELSE IF m.r.kind = "TyrantError" THEN Raise("StopIteration", <<>>, m.r)
              ELSE m.r] :
        m \in Answered(c, _t0(C_iternext), ReadStr)}

\* Mutant: the generator starts where the cursor is.
generator_first_no_iterinit(c) == generator_turn(c)

\* The first next() of a generator: the body runs from its top, iterinit
\* and then the first turn of the loop.
generator_first(c) ==
    UNION {IF i.r.kind # "ok" THEN {[m |-> i, at |-> "done", res |-> i.r]}
           ELSE generator_turn(i) :
              i \in Answered(c, _t0(C_iterinit), ReadStatus)}

\* iterkeys(): a generator is made, and nothing of its body runs.
PyTyrant_iterkeys ==
    /\ ~hung
    /\ Len(gens) < MaxGens
    /\ gens' = Append(gens, [at |-> "new", yielded |-> <<>>])
    /\ db' = db
    /\ cursor' = cursor
    /\ inbuf' = inbuf
    /\ hung' = hung
    /\ op' = [api |-> "PyTyrant", name |-> "iterkeys", args |-> [none |-> 0],
              fault |-> 0, shape |-> "-"]
    /\ sent' = <<>>
    /\ recvd' = <<>>
    /\ nread' = 0
    /\ ret' = [kind |-> "ok", val |-> Len(gens) + 1, req |-> 0]
    /\ UNCHANGED <<adds, queries, lists>>

\* next() of the generator gens[g] that has not ended.
generator_next(g) ==
    /\ ~hung
    /\ g \in 1..Len(gens)
    /\ gens[g].at # "done"
    /\ \E t \in (IF gens[g].at = "new" THEN generator_first(NoCalls(Conn))
                 ELSE generator_turn(NoCalls(Conn))) :
          /\ gens' = [gens EXCEPT ![g] =
                        [at |-> t.at,
                         yielded |-> IF t.res.kind = "ok" THEN Append(@.yielded, t.res.val)
                                     ELSE @.yielded]]
          /\ db' = t.m.db
          /\ cursor' = t.m.cursor
          /\ inbuf' = t.m.inbuf
          /\ hung' = (t.m.r.kind = "blocked")
          /\ op' = [api |-> "generator", name |-> "next", args |-> [g |-> g],
                    fault |-> t.m.fault, shape |-> t.m.shape]
          /\ sent' = t.m.sent
          /\ recvd' = t.m.recvd
          /\ nread' = t.m.nread
          /\ ret' = t.res
    /\ UNCHANGED <<adds, queries, lists>>

-----------------------------------------------------------------------------
(* The client on one connection to a key-value server.                     *)

NoCall == [api |-> "-", name |-> "-", args |-> [none |-> 0], fault |-> 0, shape |-> "-"]

Init ==
    /\ db = EmptyDb
    /\ cursor = <<>>
    /\ inbuf = <<>>
    /\ hung = FALSE
    /\ adds = 0
    /\ op = NoCall
    /\ sent = <<>>
    /\ recvd = <<>>
    /\ nread = 0
    /\ ret = [kind |-> "ok", val |-> <<>>, req |-> 0]
    /\ queries = <<>>
    /\ lists = <<>>
    /\ gens = <<>>

Widths == {NoneArg} \cup {Some(w) : w \in 0..MaxValLen}
FuncNames == {S_putlist, S_outlist, S_getlist}

\* Every method of Tyrant, on one key and one value.
K1 == {<<118>>}
Next ==
    \/ \E k \in K1, v \in K1 : put(k, v)
    \/ \E k \in K1, v \in K1 : putkeep(k, v)
    \/ \E k \in K1, v \in K1 : putcat(k, v)
    \/ \E k \in K1, v \in K1, w \in 1..MaxValLen : putshl(k, v, w)
    \/ \E k \in K1, v \in K1 : putnr(k, v)
    \/ \E k \in K1 : out(k)
    \/ \E k \in K1 : get(k)
    \/ \E l \in SeqsUpTo(K1, MaxKeys) : mget(l)
    \/ \E k \in K1 : vsiz(k)
    \/ iterinit
    \/ iternext
    \/ \E k \in K1, n \in 0..1 : fwmkeys(k, n)
    \/ \E k \in K1 : addint(k, 1)
    \/ \E k \in K1 : adddouble(k, 2)
    \/ \E k \in K1, v \in K1, o \in 0..1 : ext(<<102>>, o, k, v)
    \/ sync
    \/ vanish
    \/ \E k \in K1 : copy(k)
    \/ \E k \in K1 : restore(k, 1)
    \/ \E k \in K1 : setmst(k, 1978)
    \/ rnum
    \/ size
    \/ stat
    \/ \E f \in FuncNames, o \in 0..1, l \in SeqsUpTo(K1, MaxKeys) : misc(f, o, l)

Spec == Init /\ [][Next]_vars

\* Storing, appending and reading back, through Tyrant and through PyTyrant.
NextKV ==
    \/ \E k \in Keys, v \in Values : put(k, v)
    \/ \E k \in Keys : get(k)
    \/ \E k \in Keys : out(k)
    \/ \E k \in Keys, v \in Values : PyTyrant_setitem(k, v)
    \/ \E k \in Keys : PyTyrant_getitem(k)
    \/ \E k \in Keys, v \in Values, w \in Widths : PyTyrant_concat(k, v, w)

SpecKV == Init /\ [][NextKV]_vars

\* Counters.
NextNum ==
    \/ \E k \in Keys, n \in 0..2 : addint(k, n)
    \/ \E k \in Keys, n \in 0..MaxQuarters : adddouble(k, n)
    \/ \E k \in Keys : out(k)

SpecNum == Init /\ [][NextNum]_vars

\* Bulk calls.
NextBulk ==
    \/ \E f \in FuncNames, o \in 0..1, l \in KeyLists : misc(f, o, l)
    \/ \E l \in KeyLists, n \in BOOLEAN : PyTyrant_multi_get(l, n)

SpecBulk == Init /\ [][NextBulk]_vars

\* Walking over the keys.
NextIter ==
    \/ \E k \in Keys, v \in Values : put(k, v)
    \/ \E k \in Keys : out(k)
    \/ PyTyrant_keys

SpecIter == Init /\ [][NextIter]_vars

\* A server that holds some of the keys, and generators of iterkeys() on
\* one connection to it, advanced in any order.
InitGen ==
    /\ db \in {[k \in Keys |-> IF k \in S THEN Str(<<118>>) ELSE None] : S \in SUBSET Keys}
    /\ cursor = <<>>
    /\ inbuf = <<>>
    /\ hung = FALSE
    /\ adds = 0
    /\ op = NoCall
    /\ sent = <<>>
    /\ recvd = <<>>
    /\ nread = 0
    /\ ret = [kind |-> "ok", val |-> <<>>, req |-> 0]
    /\ queries = <<>>
    /\ lists = <<>>
    /\ gens = <<>>

NextGen ==
    \/ PyTyrant_iterkeys
    \/ \E g \in 1..MaxGens : generator_next(g)

SpecGen == InitGen /\ [][NextGen]_vars

\* sockrecv(sock, bytes), called when the peer has written data on top of
\* what is unread, and has then closed the connection or not.
sockrecv_call(data, closed, bytes) ==
    /\ ~hung
    /\ op.name = "sockrecv" => ~op.args.closed
    /\ Len(inbuf) + Len(data) <= MaxRecv
    /\ \E r \in sockrecv_on(inbuf \o data, closed, <<>>, bytes) :
          /\ inbuf' = r.rest
          /\ hung' = (r.kind # "ok")
          /\ nread' = Len(inbuf) + Len(data) - Len(r.rest)
          /\ ret' = Result(r)
    /\ op' = [api |-> "socket", name |-> "sockrecv",
              args |-> [bytes |-> bytes, closed |-> closed], fault |-> 0, shape |-> "-"]
    /\ sent' = <<>>
    /\ recvd' = data
    /\ UNCHANGED <<db, cursor, adds, queries, lists, gens>>

\* Reading from a peer that may close the connection.
NextRecv ==
    \E data \in SeqsUpTo({0, 7}, MaxRecv), closed \in BOOLEAN, bytes \in 0..MaxRecv :
        sockrecv_call(data, closed, bytes)

SpecRecv == Init /\ [][NextRecv]_vars

\* The methods of PyTyrant that the server may refuse.
V1 == {<<118>>, <<119>>}
NextWrap ==
    \/ \E k \in Keys, v \in V1 : PyTyrant_setitem(k, v)
    \/ \E k \in Keys : PyTyrant_getitem(k)
    \/ \E k \in Keys : PyTyrant_delitem(k)
    \/ \E k \in Keys : PyTyrant_get_size(k)
    \/ \E k \in Keys : PyTyrant_contains(k)
    \/ PyTyrant_len
    \/ PyTyrant_clear
    \/ PyTyrant_sync
    \/ \E l \in SeqsUpTo(K1 \X V1, MaxKeys), n \in BOOLEAN : PyTyrant_multi_set(l, n)
    \/ \E l \in SeqsUpTo(K1, MaxKeys), n \in BOOLEAN : PyTyrant_multi_del(l, n)
    \/ \E k \in K1, r \in BOOLEAN, g \in BOOLEAN : PyTyrant_call_func(<<102>>, k, k, r, g)
    \/ \E k \in Keys, n \in {NoneArg, Some(1)} : PyTyrant_prefix_keys(k, n)
    \/ \E k \in Keys, v \in V1 : PyTyrant_setdefault(k, v)
    \/ PyTyrant_keys

SpecWrap == Init /\ [][NextWrap]_vars

\* The two calls that name a function of the server.
NextFunc ==
    \/ \E f \in {<<>>, <<102>>}, o \in 0..3, k \in Keys, v \in Values : ext(f, o, k, v)
    \/ \E f \in FuncNames, o \in 0..1, l \in KeyLists : misc(f, o, l)

SpecFunc == Init /\ [][NextFunc]_vars

\* A table server with three records, and the queries made of it.
TableDb ==
    [k \in {TableKeyList[i] : i \in 1..Len(TableKeyList)} |->
        IF k = <<98>> THEN Str(<<102, 0, 57>>) ELSE Str(<<102, 0, 49, 48>>)]

InitQuery ==
    /\ db = TableDb
    /\ cursor = <<>>
    /\ inbuf = <<>>
    /\ hung = FALSE
    /\ adds = 0
    /\ op = NoCall
    /\ sent = <<>>
    /\ recvd = <<>>
    /\ nread = 0
    /\ ret = [kind |-> "ok", val |-> <<>>, req |-> 0]
    /\ queries = <<>>
    /\ lists = <<>>
    /\ gens = <<>>

S_f == <<102>>
S_10 == <<49, 48>>
S_f__streq == <<102, 95, 95, 115, 116, 114, 101, 113>>
S_f__numlt == <<102, 95, 95, 110, 117, 109, 108, 116>>
S_f__bogus == <<102, 95, 95, 98, 111, 103, 117, 115>>
S_bogus == <<98, 111, 103, 117, 115>>

\* Keyword arguments of filter, in the order the dict hands them out: two
\* that filter accepts, then three that it refuses.
Keywords ==
    << <<<<S_f__streq, Str(S_10)>>>>,
       <<<<S_f__numlt, [t |-> "list", v |-> <<S_10, <<57>>>>]>>>>,
       <<<<S_bogus, Str(S_10)>>>>,
       <<<<S_f__bogus, Str(S_10)>>>>,
       <<<<S_f__streq, Str(S_10)>>, <<S_f__bogus, Str(S_10)>>>> >>

OrderFields == {S_f, <<45>> \o S_f}

\* The keys a Query is indexed with: integers and slices that __getitem__
\* accepts, then negative ones and keys of other types.
IndexKeys ==
    << int(0), int(1), int(3),
       slice(Some(2), Some(5), NoneArg), slice(Some(0), Some(3), Some(2)),
       slice(NoneArg, NoneArg, NoneArg), slice(Some(1), NoneArg, Some(0 - 1)),
       slice(NoneArg, Some(2), Some(0)),
       int(0 - 1), slice(Some(0 - 1), NoneArg, NoneArg),
       slice(NoneArg, Some(0 - 2), NoneArg), slice(Some(0 - 1), Some(0 - 1), Some(2)),
       [t |-> "str", v |-> S_f], [t |-> "float", v |-> 1] >>

\* Deriving queries and materializing their results.
NextQuery ==
    \/ PyTableTyrant_search
    \/ \E i \in 1..MaxQueries, n \in 1..Len(Keywords) : Query_filter(i, Keywords[n])
    \/ \E i \in 1..MaxQueries, f \in OrderFields : Query_order_by_num(i, f)
    \/ \E i \in 1..MaxQueries, f \in OrderFields : Query_order_by_str(i, f)
    \/ \E i \in 1..MaxQueries :
          conditions_append(i, join(<<0>>, <<S_addcond, S_f, <<50>>, <<49>>>>))
    \/ \E i \in 1..MaxQueries : Query_iter(i)
    \/ \E i \in 1..MaxQueries : Query_len(i)
    \/ \E i \in 1..MaxQueries : Query_items(i)

SpecQuery == InitQuery /\ [][NextQuery]_vars

\* Indexing queries, and the calls that check their arguments.
NextIndex ==
    \/ PyTableTyrant_search
    \/ \E i \in 1..MaxQueries, n \in 1..Len(Keywords) : Query_filter(i, Keywords[n])
    \/ \E i \in 1..MaxQueries : Query_iter(i)
    \/ \E i \in 1..MaxQueries, n \in 1..Len(IndexKeys) : Query_getitem(i, IndexKeys[n])
    \/ \E w \in {NoneArg, Some(0), Some(1)} :
          PyTableTyrant_concat(<<97>>, <<<<<<103>>, <<49>>>>>>, w, FALSE)

SpecIndex == InitQuery /\ [][NextIndex]_vars

\* Keyword arguments of filter that no record of the table meets.
S_7 == <<55>>
NoMatch == <<<<S_f__streq, Str(S_7)>>>>

\* Queries that are materialized and then indexed, one of them with no
\* result.
NextCache ==
    \/ PyTableTyrant_search
    \/ \E i \in 1..MaxQueries, kw \in {Keywords[1], NoMatch} : Query_filter(i, kw)
    \/ \E i \in 1..MaxQueries : Query_iter(i)
    \/ \E i \in 1..MaxQueries : Query_len(i)
    \/ \E i \in 1..MaxQueries : Query_items(i)
    \/ \E i \in 1..MaxQueries, n \in 1..Len(IndexKeys) : Query_getitem(i, IndexKeys[n])

SpecCache == InitQuery /\ [][NextCache]_vars

\* Bulk get of a table: two records of the table and a key it has not.
AskedKeys == {<<97>>, <<98>>, <<100>>}

NextTable ==
    \/ \E l \in SeqsUpTo(AskedKeys, MaxKeys), n \in BOOLEAN :
          PyTableTyrant_multi_get_of(l, n)
    \/ \E k \in {<<97>>, <<98>>} :
          PyTableTyrant_concat(k, <<<<<<103>>, <<49>>>>>>, NoneArg, FALSE)

SpecTable == InitQuery /\ [][NextTable]_vars

-----------------------------------------------------------------------------
(* Claims.                                                                 *)

\* The status byte the call made last was answered with, and whether the
\* call is a method of Tyrant that reads one.
StatusRead == op.api = "Tyrant" /\ op.name # "putnr" /\ recvd # <<>>
Refused == StatusRead /\ recvd[1] # 0
RaisedTyrantError == ret.kind = "TyrantError" /\ ret.val = recvd[1]

\* C1, as stated: every method of Tyrant that reads a status byte, misc
\* included, reads nothing after a nonzero status byte and raises
\* TyrantError with that status.
C1_NothingReadAfterStatus ==
    Refused => nread = 1 /\ ret.req = 1 /\ RaisedTyrantError

\* C1, amended: every method of Tyrant other than misc reads nothing after a
\* nonzero status byte and raises TyrantError with that status; misc goes on
\* to read the 4-byte record count, blocking until it has come, then raises
\* TyrantError with that status and reads no list item.
C1_StatusFailure ==
    Refused =>
        IF op.name # "misc"
        THEN nread = 1 /\ ret.req = 1 /\ RaisedTyrantError /\ ~hung
        ELSE /\ ret.req = 5
             /\ IF Len(recvd) >= 5
                THEN nread = 5 /\ RaisedTyrantError /\ ~hung
                ELSE nread = Len(recvd) /\ ret.kind = "blocked" /\ hung

C1_Witness ==
    /\ Refused /\ op.name = "misc" /\ recvd[1] = 2
    /\ nread = 5 /\ RaisedTyrantError

\* C2: put(k, v) and then get(k), against a server that stores what the put
\* frame carries, gives exactly v, and both calls have taken from the socket
\* exactly the bytes of their responses.
C2_PutThenGet ==
    [][(/\ op.api = "Tyrant" /\ op.name = "put" /\ ret.kind = "ok"
        /\ op'.api = "Tyrant" /\ op'.name = "get" /\ op'.fault = 0
        /\ op'.args.key = op.args.key)
       => (/\ ret'.kind = "ok" /\ ret'.val = op.args.value
           /\ nread = Len(recvd) /\ nread' = Len(recvd') /\ inbuf' = <<>>)]_vars

C2_Witness ==
    /\ op.api = "Tyrant" /\ op.name = "get" /\ op.args.key = <<>>
    /\ ret.kind = "ok" /\ ret.val = <<>>
    /\ nread = Len(recvd) /\ nread = 5 /\ inbuf = <<>>

\* C3: after t[k] = v1, concat(k, v2) without a width leaves v1 followed by
\* v2 under k, which is what t[k] then gives; concat without a width sends
\* one putcat frame, concat with a width one putshl frame with that width.
C3_Concat ==
    [][/\ (/\ op.api = "PyTyrant" /\ op.name = "__setitem__" /\ ret.kind = "ok"
           /\ op'.api = "PyTyrant" /\ op'.name = "concat" /\ ret'.kind = "ok"
           /\ ~op'.args.width.some /\ op'.args.key = op.args.key)
          => db'[op.args.key] = Str(op.args.value \o op'.args.value)
       /\ (/\ op'.api = "PyTyrant" /\ op'.name = "__getitem__" /\ op'.fault = 0
           /\ db[op'.args.key].t = "str")
          => (ret'.kind = "ok" /\ ret'.val = db[op'.args.key].v)
       /\ (op'.api = "PyTyrant" /\ op'.name = "concat")
          => /\ Len(sent') = 1
             /\ sent'[1][1] = MAGIC
             /\ Field(sent'[1], 3) = Len(op'.args.key)
             /\ Field(sent'[1], 7) = Len(op'.args.value)
             /\ IF op'.args.width.some
                THEN /\ sent'[1][2] = C_putshl
                     /\ Field(sent'[1], 11) = op'.args.width.v
                     /\ Drop(sent'[1], 14) = op'.args.key \o op'.args.value
                ELSE /\ sent'[1][2] = C_putcat
                     /\ Drop(sent'[1], 10) = op'.args.key \o op'.args.value]_vars

C3_Witness ==
    /\ op.api = "PyTyrant" /\ op.name = "__getitem__"
    /\ ret.kind = "ok" /\ ret.val = <<118, 119>>

\* A double of num quarters in fixed point.
FixOf(num) == [ip |-> Big(num \div 4), fp |-> BigTimes(num % 4, QuarterE12)]

\* C4: adddouble(key, d) sends the integer part of d in the integer-part
\* field and the fraction of d times 1e12 in the fraction field, so that the
\* call on an absent key gives d, and the call on a key that holds x gives
\* x + d.
C4_AddDouble ==
    [][(op'.name = "adddouble" /\ op'.fault = 0)
       => /\ SubSeq(sent'[1], 7, 14) = FixOf(op'.args.num).ip
          /\ SubSeq(sent'[1], 15, 22) = FixOf(op'.args.num).fp
          /\ db[op'.args.key].t = "none"
             => (ret'.kind = "ok" /\ ret'.val = FixOf(op'.args.num))
          /\ (db[op'.args.key].t = "dbl" /\ db[op'.args.key].ip = Big(0))
             => (/\ ret'.kind = "ok"
                 /\ \E x \in 0..3 :
                       /\ db[op'.args.key].fp = BigTimes(x, QuarterE12)
                       /\ ret'.val = FixOf(x + op'.args.num))]_vars

\* The list a misc call was answered with.
RespList == ParseList(Drop(recvd, 5), Field(recvd, 2))

\* C5: multi_get of N keys, answered in the legacy shape: N values are
\* given back as they are, in the order of the request; fewer than N values
\* raise the KeyError of the unusable response and give nothing back.
C5_LegacyShape ==
    (op.name = "multi_get" /\ op.fault = 0 /\ op.shape = "legacy") =>
        /\ Len(RespList) <= Len(op.args.keys)
        /\ Len(RespList) = Len(op.args.keys)
           => /\ ret.kind = "ok"
              /\ Len(ret.val) = Len(op.args.keys)
              /\ \A i \in 1..Len(op.args.keys) :
                    /\ ret.val[i] = Str(RespList[i])
                    /\ ret.val[i] = Str(ValBytes(db[op.args.keys[i]]))
        /\ Len(RespList) < Len(op.args.keys)
           => /\ ret.kind = "KeyError"
              /\ ret.val = "Missing a result, unusable response in 1.1.10"

C5_Witness ==
    /\ op.name = "multi_get" /\ op.fault = 0 /\ op.shape = "legacy"
    /\ Len(op.args.keys) = 2 /\ Len(RespList) = 1
    /\ ret.kind = "KeyError"

\* The value the response pairs with key, None when it pairs none.
PairedWith(lst, key) ==
    IF \E j \in 1..(Len(lst) \div 2) : lst[2 * j - 1] = key
    THEN Str(lst[2 * (CHOOSE j \in 1..(Len(lst) \div 2) : lst[2 * j - 1] = key)])
    ELSE None

\* C6: multi_get of N >= 1 keys, answered in the interleaved shape with
\* pairs for some or all of the keys in any order: N entries are given back,
\* the i-th being the value the response pairs with the i-th key; the
\* response is not taken for one of the legacy shape.
C6_InterleavedShape ==
    (/\ op.name = "multi_get" /\ op.fault = 0 /\ op.shape = "pairs"
     /\ Len(op.args.keys) >= 1 /\ Len(RespList) >= 2) =>
        /\ ret.kind = "ok"
        /\ Len(ret.val) = Len(op.args.keys)
        /\ \A i \in 1..Len(op.args.keys) :
              ret.val[i] = PairedWith(RespList, op.args.keys[i])

\* The methods that derive a Query, and those that materialize its results.
Derivations == {"filter", "order_by_num", "order_by_str"}
Materializers == {"__iter__", "__len__", "items"}

\* The conditions the derivation o is to add to the copy of its parent's
\* list: addcond, field, opcode, value for each keyword of filter, and
\* setorder, field, direction for order_by_num and order_by_str.
AddedBy(o) ==
    CASE o.name = "filter" ->
            [n \in 1..Len(o.args.query) |->
                LET key == split(o.args.query[n][1], <<95, 95>>)
                    value == o.args.query[n][2]
                IN  join(<<0>>, <<S_addcond, key[1], opcode_of(key[2]).v,
                                  IF value.t = "list" THEN join(<<44>>, value.v)
                                  ELSE value.v>>)]
      [] o.name = "order_by_num" ->
            <<order_condition(o.args.field, RDBQONUMASC, RDBQONUMDESC)>>
      [] OTHER ->
            <<order_condition(o.args.field, RDBQOSTRASC, RDBQOSTRDESC)>>

\* C7: a derivation (filter, order_by_num, order_by_str) gives a new Query
\* whose condition list is the parent's list at that time followed by the
\* conditions the derivation adds; neither a derivation, whether it returns
\* or raises, nor an append to the condition list of a Query changes the
\* condition list or the cached results of any other Query.
C7_Derivation ==
    [][(op'.api = "Query" /\ op'.name \in Derivations \cup {"conditions.append"}) =>
        LET p == op'.args.q
        IN  /\ \A i \in 1..Len(queries) : queries'[i] = queries[i]
            /\ \A i \in 1..Len(queries) :
                  (op'.name \in Derivations \/ i # p) =>
                      lists'[queries[i].conditions] = lists[queries[i].conditions]
            /\ op'.name = "conditions.append" =>
                  /\ Len(queries') = Len(queries)
                  /\ lists'[queries[p].conditions]
                        = Append(lists[queries[p].conditions], op'.args.condition)
            /\ (op'.name \in Derivations /\ ret'.kind = "ok") =>
                  /\ Len(queries') = Len(queries) + 1
                  /\ ret'.val = Len(queries')
                  /\ lists'[queries'[Len(queries')].conditions]
                        = lists[queries[p].conditions] \o AddedBy(op')
            /\ (op'.name \in Derivations /\ ret'.kind # "ok") =>
                  Len(queries') = Len(queries)]_vars

\* A filter has been derived from a Query that holds conditions and
\* materialized results.
C7_Witness ==
    /\ op.api = "Query"
    /\ op.name = "filter"
    /\ ret.kind = "ok"
    /\ lists[queries[op.args.q].conditions] # <<>>
    /\ queries[op.args.q]._result_cache.some
    /\ Len(lists[queries[ret.val].conditions])
          > Len(lists[queries[op.args.q].conditions])

\* The frames of misc('search') among frames.
IsSearch(frame) ==
    /\ frame[2] = C_misc
    /\ Field(frame, 3) = Len(S_search)
    /\ SubSeq(frame, 15, 14 + Len(S_search)) = S_search
SearchCount(frames) == Cardinality({n \in 1..Len(frames) : IsSearch(frames[n])})

\* C8: a Query has no cached results when it is created or derived, and
\* creating or deriving one leaves every other cache alone; a call of
\* iteration, length or items() on a Query without cached results sends
\* exactly one search, first, with the condition list of the Query, and when
\* the search succeeds its key list becomes the cached results and is what
\* the call works with; on a Query with cached results such a call sends no
\* search, leaves the cache as it is and works with the cached list.
C8_ResultCache ==
    [][/\ (op'.name \in Derivations \cup {"search"} /\ ret'.kind = "ok") =>
            /\ Len(queries') = Len(queries) + 1
            /\ ~queries'[ret'.val]._result_cache.some
            /\ \A i \in 1..Len(queries) : queries'[i] = queries[i]
       /\ (op'.api = "Query" /\ op'.name \in Materializers) =>
            LET i == op'.args.q
                q == queries[i]
                first == ReadMisc(inbuf \o recvd')
            IN  /\ Len(queries') = Len(queries)
                /\ \A j \in 1..Len(queries) : j # i => queries'[j] = queries[j]
                /\ queries'[i].conditions = q.conditions
                /\ lists' = lists
                /\ ~q._result_cache.some =>
                      /\ SearchCount(sent') = 1
                      /\ sent'[1] = _t1FN(C_misc, S_search, 0, lists[q.conditions])
                      /\ first.kind = "ok" =>
                            /\ queries'[i]._result_cache.some
                            /\ queries'[i]._result_cache.v = first.val
                            /\ op'.name = "__iter__" =>
                                  ret'.kind = "ok" /\ ret'.val = first.val
                            /\ op'.name = "__len__" =>
                                  ret'.kind = "ok" /\ ret'.val = Len(first.val)
                            /\ op'.name = "items" =>
                                  /\ Len(sent') = 2
                                  /\ sent'[2] = _t1FN(C_misc, S_getlist, 0, first.val)
                /\ q._result_cache.some =>
                      /\ SearchCount(sent') = 0
                      /\ queries'[i] = q
                      /\ op'.name = "__iter__" =>
                            sent' = <<>> /\ ret'.kind = "ok" /\ ret'.val = q._result_cache.v
                      /\ op'.name = "__len__" =>
                            /\ sent' = <<>>
                            /\ ret'.kind = "ok"
                            /\ ret'.val = Len(q._result_cache.v)
                      /\ op'.name = "items" =>
                            sent' = <<_t1FN(C_misc, S_getlist, 0, q._result_cache.v)>>]_vars

\* items() has fetched the rows of a Query from its cached keys, with one
\* getlist and no search.
C8_Witness ==
    /\ op.api = "Query"
    /\ op.name = "items"
    /\ ret.kind = "ok"
    /\ Len(sent) = 1
    /\ queries[op.args.q]._result_cache.some
    /\ Len(queries[op.args.q]._result_cache.v) = 3
    /\ Len(ret.val) = 3

\* Every step-th item of l, from the first one on, or from the last one back
\* when step is negative.
EveryNth(l, step) ==
    IF step > 0
    THEN [j \in 1..((Len(l) + step - 1) \div step) |-> l[(j - 1) * step + 1]]
    ELSE [j \in 1..((Len(l) - step - 1) \div (0 - step)) |-> l[Len(l) + (j - 1) * step]]

RefusedKey(k) ==
    \/ k.t \notin {"int", "slice"}
    \/ k.t = "int" /\ k.v < 0
    \/ k.t = "slice" /\ k.start.some /\ k.start.v < 0
    \/ k.t = "slice" /\ k.stop.some /\ k.stop.v < 0

\* The keyword arguments filter is to refuse: one with an unknown operation,
\* or one that is not of the form field__operation.
RefusedKeywords(query) ==
    \E n \in 1..Len(query) : query[n][1] \in {S_f__bogus, S_bogus}

\* C10: __getitem__ with a key that is neither an integer nor a slice
\* (TypeError), with a negative integer or a slice with a negative start or
\* stop (AssertionError), filter with an unknown operation or a keyword not
\* of the form field__operation (ValueError) and PyTableTyrant.concat with a
\* width (ValueError) raise without a byte sent or read, and leave the
\* server, the connection, every Query and every condition list as they were.
C10_Validation ==
    [][LET key == op'.api = "Query" /\ op'.name = "__getitem__" /\ RefusedKey(op'.args.k)
           keyword == op'.api = "Query" /\ op'.name = "filter"
                         /\ RefusedKeywords(op'.args.query)
           width == op'.api = "PyTableTyrant" /\ op'.name = "concat" /\ op'.args.width.some
       IN  /\ key => ret'.kind = IF op'.args.k.t \in {"int", "slice"} THEN "AssertionError"
                                 ELSE "TypeError"
           /\ keyword => ret'.kind = "ValueError"
           /\ width => ret'.kind = "ValueError"
           /\ (key \/ keyword \/ width) =>
                 /\ sent' = <<>>
                 /\ recvd' = <<>>
                 /\ nread' = 0
                 /\ UNCHANGED <<db, cursor, inbuf, hung, queries, lists>>]_vars

\* filter has refused its second keyword after taking the first, on a Query
\* that holds cached results.
C10_Witness ==
    /\ op.api = "Query"
    /\ op.name = "filter"
    /\ Len(op.args.query) = 2
    /\ ret.kind = "ValueError"
    /\ queries[op.args.q]._result_cache.some

\* C11: indexing a Query with an integer i >= 0 changes no Query and no
\* condition list and never raises IndexError.  On a Query whose cached
\* results are not empty it sends nothing and gives the i-th cached key, None
\* when the cache has no i-th key.  On a Query without cached results it sends
\* exactly one search, whose conditions are those of the Query followed by
\* setlimit, 1, i, and, unless the server refuses the search, gives the i-th
\* key of the result of the Query, None when the result has no i-th key.
C11_Index ==
    [][(/\ op'.api = "Query"
        /\ op'.name = "__getitem__"
        /\ op'.args.k.t = "int"
        /\ op'.args.k.v >= 0) =>
        LET q == queries[op'.args.q]
            i == op'.args.k.v
            result == Search(db, lists[q.conditions])
        IN  /\ queries' = queries
            /\ lists' = lists
            /\ ret'.kind \in {"ok", "TyrantError", "blocked"}
            /\ (q._result_cache.some /\ q._result_cache.v # <<>>) =>
                  /\ sent' = <<>>
                  /\ ret'.kind = "ok"
                  /\ ret'.val = IF i < Len(q._result_cache.v)
                                THEN Str(q._result_cache.v[i + 1]) ELSE None
            /\ ~q._result_cache.some =>
                  /\ sent' = <<_t1FN(C_misc, S_search, 0,
                                     Append(lists[q.conditions],
                                            S_setlimit \o <<0, 49, 0>> \o str(i)))>>
                  /\ op'.fault = 0 =>
                        /\ ret'.kind = "ok"
                        /\ ret'.val = IF i < Len(result) THEN Str(result[i + 1]) ELSE None]_vars

\* Index 1 of a Query without cached results, whose conditions select two of
\* the three records, has given the second of the two.
C11_Witness ==
    /\ op.api = "Query"
    /\ op.name = "__getitem__"
    /\ op.args.k.t = "int"
    /\ op.args.k.v = 1
    /\ ~queries[op.args.q]._result_cache.some
    /\ Len(Search(db, lists[queries[op.args.q].conditions])) = 2
    /\ Len(sent) = 1
    /\ ret.kind = "ok"
    /\ ret.val = Str(<<99>>)

\* The status bytes of the answers to frames that take no arguments, from
\* the bytes of the answers one after the other.
RECURSIVE Statuses(_)
Statuses(bytes) ==
    IF bytes = <<>> THEN <<>>
    ELSE IF bytes[1] # 0 THEN <<bytes[1]>> \o Statuses(Tail(bytes))
    ELSE <<0>> \o Statuses(Drop(bytes, 5 + Field(bytes, 2)))

\* C12: keys(), that is iterkeys() run to its end, sends one iterinit and
\* then iternext frames only, and leaves the records alone.  When iterinit is
\* refused the TyrantError of that status reaches the caller and no iternext
\* is sent.  When the server refuses nothing but the iternext that finds no
\* key left, the call sends N + 1 iternext frames for the N keys the server
\* holds, ends normally, and gives N distinct keys, the keys the server holds.
C12_IterKeys ==
    [][(op'.api = "PyTyrant" /\ op'.name = "keys") =>
        LET N == Len(PresentKeys(db))
        IN  /\ sent'[1] = _t0(C_iterinit)
            /\ \A n \in 2..Len(sent') : sent'[n] = _t0(C_iternext)
            /\ db' = db
            /\ recvd'[1] # 0 =>
                  /\ Len(sent') = 1
                  /\ ret'.kind = "TyrantError"
                  /\ ret'.val = recvd'[1]
            /\ op'.fault = 0 =>
                  /\ Len(sent') = N + 2
                  /\ Statuses(Tail(recvd')) = [n \in 1..(N + 1) |-> IF n <= N THEN 0 ELSE 1]
                  /\ ret'.kind = "ok"
                  /\ Len(ret'.val) = N
                  /\ \A a, b \in 1..N : a # b => ret'.val[a] # ret'.val[b]
                  /\ {ret'.val[n] : n \in 1..N} = {k \in Keys : Present(db, k)}
                  /\ inbuf' = <<>>]_vars

\* keys() has walked over two keys and ended at the status of the fourth
\* answer.
C12_Witness ==
    /\ op.api = "PyTyrant"
    /\ op.name = "keys"
    /\ op.fault = 0
    /\ ret.kind = "ok"
    /\ Len(ret.val) = 2
    /\ Len(sent) = 4
    /\ recvd[Len(recvd)] = 1

\* C13: putnr sends one frame, its key and value under the putnr opcode,
\* and returns without asking the socket for a byte.  Against a server that
\* answers nothing to putnr, the call that follows a putnr finds no unread
\* byte, so the status byte it reads is the first byte of the answer to its
\* own frame: it raises TyrantError of that status when the byte is not 0
\* (misc, when the record count does not follow, waits for it), and does not
\* raise when it is 0.
C13_PutNr ==
    [][/\ (op'.api = "Tyrant" /\ op'.name = "putnr") =>
            /\ sent' = <<_t2(C_putnr, op'.args.key, op'.args.value)>>
            /\ recvd' = <<>>
            /\ nread' = 0
            /\ ret' = [kind |-> "ok", val |-> <<>>, req |-> 0]
            /\ inbuf' = inbuf
            /\ ~hung'
       /\ (/\ op.api = "Tyrant" /\ op.name = "putnr"
           /\ op'.api = "Tyrant" /\ op'.name # "putnr") =>
            /\ inbuf = <<>>
            /\ recvd' # <<>>
            /\ nread' >= 1
            /\ IF recvd'[1] # 0
               THEN \/ ret'.kind = "TyrantError" /\ ret'.val = recvd'[1]
                    \/ op'.name = "misc" /\ ret'.kind = "blocked"
               ELSE ret'.kind = "ok" /\ nread' = Len(recvd')]_vars

\* putnr has stored a record and read nothing.
C13_Witness ==
    /\ op.api = "Tyrant"
    /\ op.name = "putnr"
    /\ op.fault = 0
    /\ db[op.args.key] = Str(op.args.value)
    /\ Len(sent) = 1
    /\ nread = 0
    /\ inbuf = <<>>

\* C14: sockrecv(sock, n) gives the first n of the bytes that have come and
\* takes no more than these from the socket, in however many pieces they come;
\* for n = 0 it gives the empty string and reads nothing; when the peer has
\* closed the connection before n bytes have come it ends with a failure.
C14_RecvExact ==
    [][(op'.api = "socket" /\ op'.name = "sockrecv") =>
        LET n == op'.args.bytes
            come == inbuf \o recvd'
        IN  /\ n = 0 => ret'.kind = "ok" /\ ret'.val = <<>> /\ nread' = 0
            /\ Len(come) >= n =>
                  /\ ret'.kind = "ok"
                  /\ ret'.val = Take(come, n)
                  /\ nread' = n
                  /\ inbuf' = Drop(come, n)
            /\ (Len(come) < n /\ op'.args.closed) =>
                  ret'.kind \notin {"ok", "blocked", "loops"}]_vars

\* C14, what holds of it: the same for the bytes that have come, but on a
\* connection the peer has closed before n bytes have come sockrecv takes
\* what has come and then loops for ever, recv giving '' each time.
C14_RecvExactLoops ==
    [][(op'.api = "socket" /\ op'.name = "sockrecv") =>
        LET n == op'.args.bytes
            come == inbuf \o recvd'
        IN  /\ n = 0 => ret'.kind = "ok" /\ ret'.val = <<>> /\ nread' = 0
            /\ Len(come) >= n =>
                  /\ ret'.kind = "ok"
                  /\ ret'.val = Take(come, n)
                  /\ nread' = n
                  /\ inbuf' = Drop(come, n)
            /\ (Len(come) < n /\ op'.args.closed) =>
                  ret'.kind = "loops" /\ ret'.val = come /\ hung']_vars

\* The call sites of PyTyrant that are to raise KeyError, and the others.
KeyErrorSites == {"__getitem__", "__delitem__", "get_size"}
RawErrorSites ==
    {"__setitem__", "__len__", "clear", "multi_set", "multi_del", "__contains__",
     "setdefault", "sync", "prefix_keys", "call_func"}

\* The status the first refused call of the method o was answered with in
\* the answers r, 0 when none was refused: prefix_keys without maxkeys calls
\* rnum, whose answer takes 9 bytes, and then fwmkeys.
RefusedWith(o, r) ==
    IF r[1] # 0 THEN r[1]
    ELSE IF o.name = "prefix_keys" /\ ~o.args.maxkeys.some /\ Len(r) >= 10 THEN r[10]
    ELSE 0

\* The TyrantError of status reaches the caller of the method o as it is, a
\* misc that is refused without a record count waiting for the count.
RawError(o, r, status) ==
    \/ r.kind = "TyrantError" /\ r.val = status
    \/ o.name \in {"multi_set", "multi_del"} /\ r.kind = "blocked"

\* C15, as stated: a call of Tyrant that a method of PyTyrant makes and the
\* server refuses raises KeyError(key) from item get, item delete and
\* get_size, and the TyrantError of the status from item set, len, clear,
\* multi_set, multi_del, contains, setdefault, sync, prefix_keys, call_func.
C15_RawElsewhere ==
    [][(op'.api = "PyTyrant" /\ op'.name \in KeyErrorSites \cup RawErrorSites
        /\ RefusedWith(op', recvd') # 0) =>
        IF op'.name \in KeyErrorSites
        THEN ret'.kind = "KeyError" /\ ret'.val = op'.args.key
        ELSE RawError(op', ret', RefusedWith(op', recvd'))]_vars

\* C15, amended: a refused call raises KeyError(key) from item get, item
\* delete and get_size; contains gives False; setdefault, whose putkeep is
\* refused, goes on to item get, which gives the stored value or raises
\* KeyError(key) when the get is refused; item set, len, clear, multi_set,
\* multi_del, sync, prefix_keys (from its rnum or its fwmkeys) and call_func
\* raise the TyrantError of the status.  A method none of whose calls is
\* refused raises nothing.
C15_ErrorMapping ==
    [][(op'.api = "PyTyrant" /\ op'.name \in KeyErrorSites \cup RawErrorSites) =>
        LET status == RefusedWith(op', recvd')
        IN  /\ status = 0 => ret'.kind = "ok"
            /\ status # 0 =>
                  CASE op'.name \in KeyErrorSites ->
                          ret'.kind = "KeyError" /\ ret'.val = op'.args.key
                    [] op'.name = "__contains__" ->
                          ret'.kind = "ok" /\ ret'.val = FALSE
                    [] op'.name = "setdefault" ->
                          /\ sent' = <<_t2(C_putkeep, op'.args.key, op'.args.value),
                                       _t1(C_get, op'.args.key)>>
                          /\ IF recvd'[2] # 0
                             THEN ret'.kind = "KeyError" /\ ret'.val = op'.args.key
                             ELSE ret'.kind = "ok" /\ recvd' = <<status>> \o StrReply(ret'.val)
                    [] OTHER -> RawError(op', ret', status)]_vars

\* contains has given False for a key the server holds, its vsiz refused
\* with status 2.
C15_Witness ==
    /\ op.api = "PyTyrant"
    /\ op.name = "__contains__"
    /\ Present(db, op.args.key)
    /\ recvd = <<2>>
    /\ ret.kind = "ok"
    /\ ret.val = FALSE

\* C16: a method of Tyrant sends its frame on a connection that holds no
\* unread byte of an earlier answer, and, unless it waits for ever for bytes
\* that do not come, takes from the socket exactly the bytes of the answer to
\* its own frame, whether it returns or raises TyrantError, the counted lists
\* of mget, fwmkeys and misc included; putnr, which has no answer, takes
\* nothing.
C16_OneInFlight ==
    [][(op'.api = "Tyrant") =>
        /\ inbuf = <<>>
        /\ Len(sent') = 1
        /\ ~hung' =>
              /\ inbuf' = <<>>
              /\ nread' = Len(recvd')
              /\ ret'.kind \in {"ok", "TyrantError"}
              /\ ret'.kind = "TyrantError" => ret'.val = recvd'[1]
        /\ hung' => ret'.kind = "blocked" /\ nread' = Len(recvd')]_vars

\* mget has read a list of two pairs to its end.
C16_Witness ==
    /\ op.api = "Tyrant"
    /\ op.name = "mget"
    /\ ret.kind = "ok"
    /\ Len(ret.val) = 2
    /\ nread = Len(recvd)
    /\ nread > 5
    /\ inbuf = <<>>

\* The opcode class C gives for each method of Tyrant.
OpcodeOf ==
    [put |-> C_put, putkeep |-> C_putkeep, putcat |-> C_putcat, putshl |-> C_putshl,
     putnr |-> C_putnr, out |-> C_out, get |-> C_get, mget |-> C_mget, vsiz |-> C_vsiz,
     iterinit |-> C_iterinit, iternext |-> C_iternext, fwmkeys |-> C_fwmkeys,
     addint |-> C_addint, adddouble |-> C_adddouble, ext |-> C_ext, sync |-> C_sync,
     vanish |-> C_vanish, copy |-> C_copy, restore |-> C_restore, setmst |-> C_setmst,
     rnum |-> C_rnum, size |-> C_size, stat |-> C_stat, misc |-> C_misc]

\* C17: every method of Tyrant sends one frame, which starts with the magic
\* byte 0xC8 and the opcode of the method, restore sending 0x73 and copy
\* 0x72, and two different methods called one after the other do not send
\* the same opcode.
C17_Opcodes ==
    [][(op'.api = "Tyrant") =>
        /\ Len(sent') = 1
        /\ sent'[1][1] = 200
        /\ sent'[1][2] = OpcodeOf[op'.name]
        /\ op'.name = "restore" => sent'[1][2] = 115
        /\ op'.name = "copy" => sent'[1][2] = 114
        /\ (op.api = "Tyrant" /\ op.name # op'.name) => sent[1][2] # sent'[1][2]]_vars

\* C17, what holds of it: every method but restore sends the magic byte and
\* its own opcode; restore sends the opcode of copy.
C17_OpcodesButRestore ==
    [][(op'.api = "Tyrant") =>
        /\ Len(sent') = 1
        /\ sent'[1][1] = 200
        /\ sent'[1][2] = IF op'.name = "restore" THEN C_copy ELSE OpcodeOf[op'.name]]_vars

\* The layout of the frame of misc(func, opts, args): magic, opcode, the
\* length of func, opts and the number of args in 4 bytes each, func, and
\* each argument after its length in 4 bytes.
MiscLayout(frame, code, func, opts, args) ==
    /\ Take(frame, 2) = <<200, code>>
    /\ Field(frame, 3) = Len(func)
    /\ Field(frame, 7) = opts
    /\ Field(frame, 11) = Len(args)
    /\ SubSeq(frame, 15, 14 + Len(func)) = func
    /\ Drop(frame, 14 + Len(func)) =
          Concat([n \in 1..Len(args) |-> PackI(Len(args[n])) \o args[n]])

\* C18, as stated: the frame of ext(func, opts, key, value) is the frame of
\* misc(func, opts, [key, value]) but for the opcode.
C18_SameLayout ==
    [][/\ (op'.api = "Tyrant" /\ op'.name = "misc") =>
            MiscLayout(sent'[1], C_misc, op'.args.func, op'.args.opts, op'.args.args)
       /\ (op'.api = "Tyrant" /\ op'.name = "ext") =>
            MiscLayout(sent'[1], C_ext, op'.args.func, op'.args.opts,
                       <<op'.args.key, op'.args.value>>)]_vars

\* C18, amended: the frame of misc is laid out as stated; the frame of ext
\* is magic, opcode, then the length of func, opts, the length of key and
\* the length of value in 4 bytes each, then func, key and value with
\* nothing in between: it has no argument count, and is not the frame of
\* misc for [key, value] with another opcode.
C18_TwoLayouts ==
    [][/\ (op'.api = "Tyrant" /\ op'.name = "misc") =>
            MiscLayout(sent'[1], C_misc, op'.args.func, op'.args.opts, op'.args.args)
       /\ (op'.api = "Tyrant" /\ op'.name = "ext") =>
            LET frame == sent'[1]
                a == op'.args
            IN  /\ Take(frame, 2) = <<200, C_ext>>
                /\ Field(frame, 3) = Len(a.func)
                /\ Field(frame, 7) = a.opts
                /\ Field(frame, 11) = Len(a.key)
                /\ Field(frame, 15) = Len(a.value)
                /\ Drop(frame, 18) = a.func \o a.key \o a.value
                /\ ~MiscLayout(frame, C_ext, a.func, a.opts, <<a.key, a.value>>)]_vars

\* ext has sent a function name, a key and a value of one byte each after
\* the four lengths and options.
C18_Witness ==
    /\ op.api = "Tyrant"
    /\ op.name = "ext"
    /\ op.args.opts = 3
    /\ Len(sent[1]) = 21
    /\ SubSeq(sent[1], 3, 18) = PackI(1) \o PackI(3) \o PackI(1) \o PackI(1)
    /\ Drop(sent[1], 18) = <<102, 118, 119>>

\* The columns of the record of key in d, as multi_get is to give them.
RowOf(d, key) == list_to_dict(split(ValBytes(d[key]), <<0>>))

\* C19: PyTableTyrant.multi_get of N keys, answered without a refusal: a
\* legacy response of N values and an interleaved response for N records
\* give the N column mappings in request order; a legacy response of fewer
\* than N values raises the KeyError of an unusable response; nothing but
\* that KeyError is raised.
C19_BothShapes ==
    [][(op'.api = "PyTableTyrant" /\ op'.name = "multi_get" /\ op'.fault = 0) =>
          LET keys == op'.args.keys
              n == Field(recvd', 2)
              rows == [i \in 1..Len(keys) |-> RowOf(db', keys[i])]
          IN  /\ ret'.kind \in {"ok", "KeyError"}
              /\ (op'.shape = "legacy" /\ n = Len(keys)) =>
                    (ret'.kind = "ok" /\ ret'.val = rows)
              /\ (op'.shape = "legacy" /\ n < Len(keys)) =>
                    /\ ret'.kind = "KeyError"
                    /\ ret'.val = "Missing a result, unusable response in 1.1.10"
              /\ (op'.shape = "pairs" /\ \A i \in 1..Len(keys) : keys[i] \in DOMAIN db') =>
                    (ret'.kind = "ok" /\ ret'.val = rows)]_vars

\* What multi_get does of C19: a short legacy response raises the KeyError,
\* and an interleaved response for N >= 1 records of the table gives their
\* N column mappings in request order.
C19_InterleavedOnly ==
    [][(op'.api = "PyTableTyrant" /\ op'.name = "multi_get" /\ op'.fault = 0) =>
          LET keys == op'.args.keys
              n == Field(recvd', 2)
          IN  /\ (op'.shape = "legacy" /\ n < Len(keys)) =>
                    /\ ret'.kind = "KeyError"
                    /\ ret'.val = "Missing a result, unusable response in 1.1.10"
              /\ (/\ op'.shape = "pairs"
                  /\ keys # <<>>
                  /\ \A i \in 1..Len(keys) : keys[i] \in DOMAIN db') =>
                    /\ ret'.kind = "ok"
                    /\ ret'.val = [i \in 1..Len(keys) |-> RowOf(db', keys[i])]]_vars

\* C20: PyTyrant.setdefault(k, v) sends one putkeep and, only when the
\* putkeep is answered with a nonzero status, one get.  A value that is
\* stored is never overwritten.  When no call is refused for another
\* reason: with k absent v is stored and returned; with k present the
\* database is left alone and the stored value is returned; and when
\* another client removes k between the putkeep and the get, KeyError(k)
\* is raised.
C20_SetDefault ==
    [][(op'.api = "PyTyrant" /\ op'.name = "setdefault") =>
          LET k == op'.args.key
              v == op'.args.value
              removed == op'.shape = "out by another client"
          IN  /\ Len(sent') \in {1, 2}
              /\ sent'[1] = _t2(C_putkeep, k, v)
              /\ Len(recvd') >= 1
              /\ (Len(sent') = 2) = (recvd'[1] # 0)
              /\ Len(sent') = 2 => sent'[2] = _t1(C_get, k)
              /\ Present(db, k) => (db'[k] = db[k] \/ (removed /\ db'[k] = None))
              /\ \A other \in Keys \ {k} : db'[other] = db[other]
              /\ (op'.fault = 0 /\ ~Present(db, k)) =>
                    /\ db'[k] = Str(v)
                    /\ Len(sent') = 1
                    /\ ret'.kind = "ok"
                    /\ ret'.val = v
              /\ (op'.fault = 0 /\ Present(db, k) /\ ~removed) =>
                    /\ db' = db
                    /\ Len(sent') = 2
                    /\ ret'.kind = "ok"
                    /\ ret'.val = ValBytes(db[k])
              /\ (op'.fault = 0 /\ Present(db, k) /\ removed) =>
                    /\ db'[k] = None
                    /\ Len(sent') = 2
                    /\ ret'.kind = "KeyError"
                    /\ ret'.val = k]_vars

\* setdefault of a key that holds another value has sent putkeep and get,
\* and has given the stored value back.
C20_Witness ==
    /\ op.api = "PyTyrant"
    /\ op.name = "setdefault"
    /\ op.fault = 0
    /\ op.args.value = <<119>>
    /\ db[op.args.key] = Str(<<118>>)
    /\ Len(sent) = 2
    /\ ret.kind = "ok"
    /\ ret.val = <<118>>

\* What indexing the list cache with k gives: self._result_cache[k], and
\* None for an integer out of range.
FromCache(cache, k) ==
    IF ~IsIndex(k) THEN Fail("TypeError", <<>>)
    ELSE IF ~NonNegative(k)
    THEN Fail("AssertionError", "Negative indexing is not supported.")
    ELSE IF k.t = "int"
    THEN Fail("ok", IF k.v < Len(cache) THEN Str(cache[k.v + 1]) ELSE None)
    ELSE IF k.step.some /\ k.step.v = 0
    THEN Fail("ValueError", "slice step cannot be zero")
    ELSE Fail("ok", PySlice(cache, k))

\* C21: __getitem__ never populates or changes the result cache of a
\* Query, and on a Query whose result cache is populated, the empty list
\* included, it sends no request and answers from the cached list.
C21_FromCache ==
    [][(op'.api = "Query" /\ op'.name = "__getitem__") =>
          LET q == queries[op'.args.q]
          IN  /\ queries' = queries
              /\ q._result_cache.some =>
                    /\ sent' = <<>>
                    /\ ret' = FromCache(q._result_cache.v, op'.args.k)]_vars

\* What __getitem__ does of C21: it leaves the result cache alone, and it
\* answers from a cached list that is not empty without sending a request.
C21_FromNonEmptyCache ==
    [][(op'.api = "Query" /\ op'.name = "__getitem__") =>
          LET q == queries[op'.args.q]
          IN  /\ queries' = queries
              /\ (q._result_cache.some /\ q._result_cache.v # <<>>) =>
                    /\ sent' = <<>>
                    /\ ret' = FromCache(q._result_cache.v, op'.args.k)]_vars

\* C22, as stated: over a database that does not change, a generator of
\* iterkeys() never yields a key twice, and one that has ended has yielded
\* every key of the database, whatever other generators on the connection
\* were started and advanced meanwhile.
C22_Independent ==
    \A g \in 1..Len(gens) :
       /\ \A a, b \in 1..Len(gens[g].yielded) :
             a # b => gens[g].yielded[a] # gens[g].yielded[b]
       /\ gens[g].at = "done" =>
             {gens[g].yielded[a] : a \in 1..Len(gens[g].yielded)} =
                {k \in Keys : Present(db, k)}

\* C22, amended: the generators of one connection share the one cursor of
\* the server.  The first next() of a generator sends iterinit, which sets
\* the cursor back to the first key for every generator, and then iternext;
\* every later next() sends one iternext.  Each next() is given the key at
\* the cursor, whichever generator moved the cursor there, and ends its
\* generator when no key is left; it leaves the other generators and the
\* database as they are.  A generator that is the only one made yields
\* every key once.
C22_SharedCursor ==
    [][(op'.api = "generator" /\ op'.name = "next") =>
          LET g == op'.args.g
              first == gens[g].at = "new"
              at == IF first THEN PresentKeys(db) ELSE cursor
          IN  /\ sent' = IF first THEN <<_t0(C_iterinit), _t0(C_iternext)>>
                         ELSE <<_t0(C_iternext)>>
              /\ db' = db
              /\ \A h \in 1..Len(gens) : h # g => gens'[h] = gens[h]
              /\ IF at = <<>>
                 THEN /\ gens'[g] = [gens[g] EXCEPT !.at = "done"]
                      /\ ret'.kind = "StopIteration"
                      /\ cursor' = <<>>
                 ELSE /\ gens'[g] = [at |-> "run",
                                     yielded |-> Append(gens[g].yielded, Head(at))]
                      /\ ret'.kind = "ok"
                      /\ ret'.val = Head(at)
                      /\ cursor' = Tail(at)
              /\ (Len(gens') = 1 /\ gens'[1].at = "done") =>
                    gens'[1].yielded = PresentKeys(db')]_vars

\* Two generators over two keys have ended: the one started first has
\* yielded the second key twice, the other one the first key only.
C22_Witness ==
    /\ Len(gens) = 2
    /\ Len(PresentKeys(db)) = 2
    /\ gens[1] = [at |-> "done",
                  yielded |-> <<PresentKeys(db)[1], PresentKeys(db)[2], PresentKeys(db)[2]>>]
    /\ gens[2] = [at |-> "done", yielded |-> <<PresentKeys(db)[1]>>]

====
